---- MODULE Spec2Model ----
(***************************************************************************)
(* Model of task-graph: the graph mutation engine (components.js and the   *)
(* Home effects), the recurrence, depth and visibility passes, and the     *)
(* two Drive synchronisation hooks (useGoogleDriveState in googleAPI.js    *)
(* and useDriveBackedState in deprecated/useDriveBackedState.js).          *)
(*                                                                         *)
(* Node identifiers are integers: 0 is the key "root", the others stand    *)
(* for the opaque ids of crypto.randomUUID().  A graph (userData) is a     *)
(* function from the set of its keys to node records; a node record is a   *)
(* JavaScript object, so a field may be missing from it.                   *)
(***************************************************************************)
EXTENDS Integers, Sequences, FiniteSets, TLC

VARIABLES
  data,      \* userData: the canonical node map
  loaded,    \* the document as it was loaded, before any state update
  last,      \* the last state update applied: [op, id], id the deleted id
  nextId,    \* the next identifier generateId() hands out
  posY,      \* the y coordinate of each React Flow node (tracked under SpecDrag)
  rec,       \* recurrence pass: [tz, today] of the session, or NoRec
  sync       \* the synchronisation hook's state (see DriveInit, BackedInit)

vars == <<data, loaded, last, nextId, posY, rec, sync>>

-----------------------------------------------------------------------------
(* Bounds of the model *)

\* Spec: identifiers are 0..MaxId, so createChild can add nodes up to MaxId
MaxId == 3
\* SpecAny: arbitrary (possibly ill-formed) graphs have the keys 0..MaxAnyId
MaxAnyId == 2
\* y coordinates of React Flow nodes are 0..MaxPos
MaxPos == 1
\* SpecAny: the stored depth of a loaded node is in 0..MaxStoredDepth
MaxStoredDepth == 2
\* SpecSync: the snapshots handed to the hook are 1..MaxSnap
MaxSnap == 2
\* SpecSync: the schedule calls of one burst are counted up to MaxBurst
MaxBurst == 2
\* SpecSync: at most MaxJobs save jobs wait behind the running one
MaxJobs == 1

-----------------------------------------------------------------------------
(* JavaScript objects *)

root == 0

NoDate == -1

EmptyObj == [f \in {} |-> 0]

\* { ...a, ...b }
Spread(a, b) ==
  [f \in (DOMAIN a) \cup (DOMAIN b) |-> IF f \in DOMAIN b THEN b[f] ELSE a[f]]

\* node?.children || []   (node may be undefined, children may be missing)
ChildrenOf(g, id) ==
  IF id \in DOMAIN g /\ "children" \in DOMAIN g[id] THEN g[id].children ELSE <<>>

Range(s) == {s[i] : i \in DOMAIN s}

\* the filter with the kept ids in reverse order (a variant of FilterSeq)
FilterSeqReversed(s, drop) ==
  LET kept == SelectSeq(s, LAMBDA c : c \notin drop)
  IN  [i \in 1..Len(kept) |-> kept[Len(kept) + 1 - i]]

\* children.filter((cid) => keep(cid))
RECURSIVE FilterSeq(_, _)
FilterSeq(s, drop) ==
  IF s = <<>> THEN <<>>
  ELSE (IF Head(s) \in drop THEN <<>> ELSE <<Head(s)>>) \o FilterSeq(Tail(s), drop)

\* { ...prev, [id]: node }
SetKey(g, id, node) ==
  [k \in (DOMAIN g) \cup {id} |-> IF k = id THEN node ELSE g[k]]

-----------------------------------------------------------------------------
(* The initial documents *)

\* part_002: const initial = { root: {...} }
InitialGraph ==
  [k \in {root} |->
     [title |-> "", children |-> <<>>, type |-> "task", visible |-> TRUE,
      dueDate |-> NoDate, repeatDays |-> 0, depth |-> 0]]

\* normalizeVisibilityOnFirstLoad without the loop over the children of root
\* (a variant of NormalizeVisibilityOnFirstLoad)
NormalizeRootOnly(g) ==
  [k \in DOMAIN g |-> Spread(g[k], [visible |-> (k = root)])]

\* persistence.js: normalizeVisibilityOnFirstLoad
NormalizeVisibilityOnFirstLoad(g) ==
  LET hidden == [k \in DOMAIN g |-> Spread(g[k], [visible |-> FALSE])]
      kids   == Range(ChildrenOf(hidden, root))
  IN  IF root \notin DOMAIN g THEN hidden
      ELSE [k \in DOMAIN g |->
              IF k = root \/ k \in kids
              THEN Spread(hidden[k], [visible |-> TRUE]) ELSE hidden[k]]

\* part_003: the sample document of the local-storage Home (ids 12345, 67890,
\* abcde are 1, 2, 3)
SampleGraph ==
  [k \in 0..3 |->
     CASE k = 0 -> [title |-> "Root Node", children |-> <<1, 2>>, type |-> "task",
                    visible |-> TRUE, dueDate |-> NoDate, repeatDays |-> 0]
       [] k = 1 -> [title |-> "Task Node", children |-> <<3>>, type |-> "task",
                    completed |-> FALSE, visible |-> TRUE, dueDate |-> NoDate,
                    repeatDays |-> 0]
       [] k = 2 -> [title |-> "Task Node 2", children |-> <<>>, type |-> "task",
                    completed |-> TRUE, visible |-> TRUE, dueDate |-> NoDate,
                    repeatDays |-> 0]
       [] k = 3 -> [title |-> "Text Node", children |-> <<>>, type |-> "text",
                    content |-> "This is a text node.", visible |-> FALSE]]

-----------------------------------------------------------------------------
(* components.js: recursiveDelete and deleteNodeById *)

\* step 1 without the walk: only the node itself (a variant of CollectToDelete)
CollectOnlyNode(stack, toDelete, g) == Range(stack)

\* step 1: the stack walk that collects nodeId and its descendants
RECURSIVE CollectToDelete(_, _, _)
CollectToDelete(stack, toDelete, g) ==
  IF stack = <<>> THEN toDelete
  ELSE LET current == stack[Len(stack)]
           rest    == SubSeq(stack, 1, Len(stack) - 1)
       IN  IF current \in toDelete
           THEN CollectToDelete(rest, toDelete, g)
           ELSE CollectToDelete(rest \o ChildrenOf(g, current),
                                toDelete \cup {current}, g)

\* the sum of the lengths of the children lists of g
RECURSIVE SumChildren(_, _)
SumChildren(g, keys) ==
  IF keys = {} THEN 0
  ELSE LET k == CHOOSE x \in keys : TRUE
       IN  Len(ChildrenOf(g, k)) + SumChildren(g, keys \ {k})

\* every id is pushed once at the start or as a child of a node that is
\* expanded, so this many iterations empty the stack if no node is expanded twice
WalkLimit(g) == 1 + SumChildren(g, DOMAIN g)

\* the walk without the toDelete.has(current) test (a variant of
\* CollectIterations)
RECURSIVE CollectIterationsNoVisited(_, _, _, _, _)
CollectIterationsNoVisited(stack, toDelete, g, n, limit) ==
  IF stack = <<>> \/ n > limit THEN n
  ELSE LET current == stack[Len(stack)]
           rest    == SubSeq(stack, 1, Len(stack) - 1)
       IN  CollectIterationsNoVisited(rest \o ChildrenOf(g, current),
                                      toDelete \cup {current}, g, n + 1, limit)

\* step 1 again, counting the iterations of while (stack.length): n so far;
\* the count stops one past limit
RECURSIVE CollectIterations(_, _, _, _, _)
CollectIterations(stack, toDelete, g, n, limit) ==
  IF stack = <<>> \/ n > limit THEN n
  ELSE LET current == stack[Len(stack)]
           rest    == SubSeq(stack, 1, Len(stack) - 1)
       IN  IF current \in toDelete
           THEN CollectIterations(rest, toDelete, g, n + 1, limit)
           ELSE CollectIterations(rest \o ChildrenOf(g, current),
                                  toDelete \cup {current}, g, n + 1, limit)

\* step 3 with the references left in place (a variant of StripReferences)
StripReferencesNoop(g, toDelete) == g

\* step 3: drop the deleted ids from the remaining children lists
StripReferences(g, toDelete) ==
  [k \in DOMAIN g |->
     LET children == ChildrenOf(g, k)
         filtered == FilterSeq(children, toDelete)
     IN  IF Len(children) > 0 /\ Len(filtered) # Len(children)
         THEN Spread(g[k], [children |-> filtered])
         ELSE g[k]]

RecursiveDelete(nodeId, g) ==
  LET toDelete == CollectToDelete(<<nodeId>>, {}, g)
      kept     == [k \in (DOMAIN g) \ toDelete |-> g[k]]
  IN  StripReferences(kept, toDelete)

\* deleteNodeById without its guard (a variant of DeleteNodeById)
DeleteNodeByIdNoGuard(g, id) == RecursiveDelete(id, g)

\* deleteNodeById: the graph after the handler (unchanged for "root")
DeleteNodeById(g, id) ==
  IF id = root THEN g ELSE RecursiveDelete(id, g)

-----------------------------------------------------------------------------
(* components.js: createChildNode *)

\* the defaults of a new node, before the overrides
NewNodeDefaults ==
  [title |-> "", type |-> "task", children |-> <<>>, visible |-> TRUE,
   completed |-> FALSE, dueDate |-> NoDate, repeatDays |-> 0]

\* userData[parentId]?.depth ?? 0
ParentDepth(g, parentId) ==
  IF parentId \in DOMAIN g /\ "depth" \in DOMAIN g[parentId]
  THEN g[parentId].depth ELSE 0

\* the state update of createChildNode with the new id dropped from the
\* parent's list (a variant of CreateChildNode)
CreateChildNodeUnlinked(g, parentId, overrides, newId) ==
  SetKey(g, newId,
         Spread(Spread(NewNodeDefaults, overrides),
                [depth |-> ParentDepth(g, parentId) + 1]))

\* the graph after createChildNode(parentId, overrides) made the id newId
CreateChildNode(g, parentId, overrides, newId) ==
  LET newNode == Spread(Spread(NewNodeDefaults, overrides),
                        [depth |-> ParentDepth(g, parentId) + 1])
      parent  == Spread(IF parentId \in DOMAIN g THEN g[parentId] ELSE EmptyObj,
                        [children |-> ChildrenOf(g, parentId) \o <<newId>>])
  IN  SetKey(SetKey(g, newId, newNode), parentId, parent)

-----------------------------------------------------------------------------
(* components.js: makeDataForId(id).updateNode *)

UpdateNode(g, id, patch) ==
  SetKey(g, id, Spread(IF id \in DOMAIN g THEN g[id] ELSE EmptyObj, patch))

-----------------------------------------------------------------------------
(* components.js: onNodeDragStop *)

\* Number.POSITIVE_INFINITY, the position of an id that has no React Flow node
PosInfinity == MaxPos + 1

\* posById.get(id) ?? Number.POSITIVE_INFINITY
PosOf(pos, id) == IF id \in DOMAIN pos THEN pos[id] ELSE PosInfinity

\* orderIndex.get(id) ?? 0 : the Map keeps the last index of a repeated id
OrderIndex(sibs, id) ==
  LET at == {i \in DOMAIN sibs : sibs[i] = id}
  IN  IF at = {} THEN 0 ELSE (CHOOSE i \in at : \A j \in at : j <= i) - 1

\* the comparator without the tie-breaker (a variant of Compare)
CompareNoTieBreak(a, b, pos, sibs) ==
  IF PosOf(pos, a) # PosOf(pos, b) THEN PosOf(pos, a) - PosOf(pos, b) ELSE -1

\* the comparator of the sort: by y, ties by the current index
Compare(a, b, pos, sibs) ==
  IF PosOf(pos, a) # PosOf(pos, b)
  THEN PosOf(pos, a) - PosOf(pos, b)
  ELSE OrderIndex(sibs, a) - OrderIndex(sibs, b)

\* x put into the sorted sequence s
RECURSIVE InsertSorted(_, _, _, _)
InsertSorted(x, s, pos, sibs) ==
  IF s = <<>> THEN <<x>>
  ELSE IF Compare(x, Head(s), pos, sibs) < 0 THEN <<x>> \o s
       ELSE <<Head(s)>> \o InsertSorted(x, Tail(s), pos, sibs)

\* [...sibs].sort(comparator)
RECURSIVE SortSibs(_, _, _)
SortSibs(s, pos, sibs) ==
  IF s = <<>> THEN <<>>
  ELSE InsertSorted(s[Len(s)], SortSibs(SubSeq(s, 1, Len(s) - 1), pos, sibs),
                    pos, sibs)

\* the scan for the parent: the first key whose children include the id
HasParent(g, id) == \E p \in DOMAIN g : id \in Range(ChildrenOf(g, p))

FindParent(g, id) ==
  CHOOSE p \in DOMAIN g :
    /\ id \in Range(ChildrenOf(g, p))
    /\ \A q \in DOMAIN g : id \in Range(ChildrenOf(g, q)) => p <= q

\* the order computed with no node positions at all (a variant of SortedChildren)
SortedChildrenNoPositions(g, parentId, pos) ==
  SortSibs(ChildrenOf(g, parentId), <<>>, ChildrenOf(g, parentId))

\* the children order the handler computes for the parent
SortedChildren(g, parentId, pos) ==
  SortSibs(ChildrenOf(g, parentId), pos, ChildrenOf(g, parentId))

\* the graph after onNodeDragStop(dragged) with the node positions pos
OnNodeDragStop(g, draggedId, pos) ==
  IF ~HasParent(g, draggedId) THEN g
  ELSE LET parentId == FindParent(g, draggedId)
           sibs     == ChildrenOf(g, parentId)
           sorted   == SortedChildren(g, parentId, pos)
       IN  IF Len(sibs) <= 1 \/ sorted = sibs THEN g
           ELSE SetKey(g, parentId, Spread(g[parentId], [children |-> sorted]))

\* the handler with the two early returns left out (a variant of ReorderUpdates)
ReorderUpdatesAlways(g, draggedId, pos) == HasParent(g, draggedId)

\* whether onNodeDragStop(dragged) reaches its setUserData call, which is what
\* hands a new snapshot to the store and schedules a save
ReorderUpdates(g, draggedId, pos) ==
  /\ HasParent(g, draggedId)
  /\ LET parentId == FindParent(g, draggedId)
         sibs     == ChildrenOf(g, parentId)
     IN  /\ ~(Len(sibs) <= 1)
         /\ SortedChildren(g, parentId, pos) # sibs

-----------------------------------------------------------------------------
(* components.js: onSelectionChange *)

\* onSelectionChange revealing the children of the children too (a variant
\* of OnSelectionChange)
OnSelectionChangeCascade(g, selectedIds) ==
  LET kids == UNION {Range(ChildrenOf(g, sid)) : sid \in selectedIds}
      all  == kids \cup UNION {Range(ChildrenOf(g, k)) : k \in kids}
  IN  [k \in DOMAIN g |->
         IF k \in all THEN Spread(g[k], [visible |-> TRUE]) ELSE g[k]]

OnSelectionChange(g, selectedIds) ==
  LET kids == UNION {Range(ChildrenOf(g, sid)) : sid \in selectedIds}
  IN  [k \in DOMAIN g |->
         IF k \in kids /\ "visible" \in DOMAIN g[k] /\ g[k].visible = FALSE
         THEN Spread(g[k], [visible |-> TRUE]) ELSE g[k]]

-----------------------------------------------------------------------------
(* part_002, Home: the depth effect *)

\* the inner loop over the children of the node taken from the queue:
\* st = [q, target], target the Map targetDepth
RECURSIVE VisitChildren(_, _, _, _)
VisitChildren(children, d, st, g) ==
  IF children = <<>> THEN st
  ELSE LET cid == Head(children)
           nd  == d + 1
       IN  IF cid \notin DOMAIN g
           THEN VisitChildren(Tail(children), d, st, g)
           ELSE IF cid \notin DOMAIN st.target \/ nd < st.target[cid]
                THEN VisitChildren(Tail(children), d,
                       [q |-> Append(st.q, cid),
                        target |-> SetKey(st.target, cid, nd)], g)
                ELSE VisitChildren(Tail(children), d, st, g)

\* while (q.length) { const id = q.shift(); ... }
RECURSIVE BreadthFirst(_, _)
BreadthFirst(st, g) ==
  IF st.q = <<>> THEN st.target
  ELSE LET id == Head(st.q)
       IN  BreadthFirst(
             VisitChildren(ChildrenOf(g, id), st.target[id],
                           [q |-> Tail(st.q), target |-> st.target], g), g)

\* the walk again, counting the iterations of while (q.length): n so far; the
\* count stops one past limit
RECURSIVE BreadthFirstIterations(_, _, _, _)
BreadthFirstIterations(st, g, n, limit) ==
  IF st.q = <<>> \/ n > limit THEN n
  ELSE LET id == Head(st.q)
       IN  BreadthFirstIterations(
             VisitChildren(ChildrenOf(g, id), st.target[id],
                           [q |-> Tail(st.q), target |-> st.target], g),
             g, n + 1, limit)

\* the Map targetDepth of the effect
TargetDepth(g) ==
  BreadthFirst([q |-> <<root>>, target |-> [k \in {root} |-> 0]], g)

\* the depth pass with every child put at depth 1 (a variant of RecomputeDepths)
RecomputeDepthsFlat(g) ==
  IF root \notin DOMAIN g THEN g
  ELSE LET target == TargetDepth(g)
       IN  [k \in DOMAIN g |->
              IF k \in DOMAIN target
              THEN Spread(g[k], [depth |-> IF k = root THEN 0 ELSE 1])
              ELSE g[k]]

\* the graph after the depth effect
RecomputeDepths(g) ==
  IF root \notin DOMAIN g THEN g
  ELSE LET target == TargetDepth(g)
       IN  [k \in DOMAIN g |->
              IF k \in DOMAIN target /\
                 ~("depth" \in DOMAIN g[k] /\ g[k].depth = target[k])
              THEN Spread(g[k], [depth |-> target[k]])
              ELSE g[k]]

-----------------------------------------------------------------------------
(* part_002 / part_003, Home: the recurrence effect.  A calendar date is   *)
(* its day number; a Date is the instant of local midnight of its day; the *)
(* session's time zone is tz hours east of UTC.                            *)

\* guard < 1000
GuardLimit == 1000

\* maxAttempts of saveWithRetry
MaxAttempts == 5

\* the time zone offsets (hours east of UTC) a session may run in
TimeZones == {-5, 0, 2}

\* due.toISOString().slice(0, 10): the UTC calendar day of the instant of
\* local midnight of day d
ToISODate(d, tz) == ((d * 24) - tz) \div 24

\* the number of times the body of  while (due < today && guard < 1000)  runs:
\* the first k at which the loop condition is false
LoopCount(due, today, step) ==
  LET stops == {k \in 0..GuardLimit : ~(due + k * step < today /\ k < GuardLimit)}
  IN  CHOOSE k \in stops : \A j \in stops : k <= j

\* what the effect does to one node
AdvanceNode(node, today, tz) ==
  IF \/ "dueDate" \notin DOMAIN node \/ node.dueDate = NoDate
     \/ "repeatDays" \notin DOMAIN node \/ ~(node.repeatDays > 0)
     \/ "completed" \notin DOMAIN node \/ node.completed # TRUE
  THEN node
  ELSE IF node.dueDate >= today THEN node
  ELSE LET due == node.dueDate + LoopCount(node.dueDate, today, node.repeatDays)
                                   * node.repeatDays
       IN  IF due # node.dueDate
           THEN Spread(node, [dueDate |-> ToISODate(due, tz), completed |-> FALSE])
           ELSE node

\* the graph after the recurrence effect
AdvanceRecurringTasks(g, today, tz) ==
  [k \in DOMAIN g |-> AdvanceNode(g[k], today, tz)]

-----------------------------------------------------------------------------
(* State machine of the graph store: the handlers of FlowChart and the     *)
(* effects of Home, each applied as one state update                       *)

NoSync == [engine |-> "none"]

NoRec == [tz |-> 0, today |-> 0]

Op(name, id) == [op |-> name, id |-> id]

\* the overrides callers pass to createChildNode
Overrides == {EmptyObj, [depth |-> 7]}

\* the patches the node components pass to updateNode
Patches == {[completed |-> TRUE]}

\* the identifiers handed out so far: the ids a handler can be called with
KnownIds == 0..(nextId - 1)

CreateChild(parentId, overrides) ==
  /\ nextId <= MaxId
  /\ data' = CreateChildNode(data, parentId, overrides, nextId)
  /\ nextId' = nextId + 1
  /\ last' = Op("create", root)
  /\ UNCHANGED <<loaded, posY, rec, sync>>

DeleteSubtree(id) ==
  /\ data' = DeleteNodeById(data, id)
  /\ last' = Op("delete", id)
  /\ UNCHANGED <<loaded, nextId, posY, rec, sync>>

PatchNode(id, patch) ==
  /\ data' = UpdateNode(data, id, patch)
  /\ last' = Op("patch", root)
  /\ UNCHANGED <<loaded, nextId, posY, rec, sync>>

\* the ids whose y coordinate the drag handler reads: the siblings that have
\* a React Flow node
PosDomain(g, draggedId) ==
  IF HasParent(g, draggedId)
  THEN Range(ChildrenOf(g, FindParent(g, draggedId))) \cap DOMAIN g
  ELSE {}

Positions(g, draggedId) == [PosDomain(g, draggedId) -> 0..MaxPos]

NodeDragStop(draggedId, pos) ==
  /\ data' = OnNodeDragStop(data, draggedId, pos)
  /\ last' = Op("reorder", root)
  /\ UNCHANGED <<loaded, nextId, posY, rec, sync>>

\* the selections of onSelectionChange: one node, or all of them
Selections == {{id} : id \in KnownIds} \cup {KnownIds}

SelectionChange(selectedIds) ==
  /\ data' = OnSelectionChange(data, selectedIds)
  /\ last' = Op("reveal", root)
  /\ UNCHANGED <<loaded, nextId, posY, rec, sync>>

DepthEffect ==
  /\ data' = RecomputeDepths(data)
  /\ last' = Op("depths", root)
  /\ UNCHANGED <<loaded, nextId, posY, rec, sync>>

\* the documents an editing session starts from: the initial document of
\* Home, or the sample document as the local-storage Home loads it
Init ==
  /\ data \in {InitialGraph, NormalizeVisibilityOnFirstLoad(SampleGraph)}
  /\ loaded = data
  /\ last = Op("init", root)
  /\ nextId = Cardinality(DOMAIN data)
  /\ posY = EmptyObj
  /\ rec = NoRec
  /\ sync = NoSync

Next ==
  \/ \E p \in KnownIds, ov \in Overrides : CreateChild(p, ov)
  \/ \E id \in KnownIds : DeleteSubtree(id)
  \/ \E id \in KnownIds, patch \in Patches : PatchNode(id, patch)
  \/ \E id \in KnownIds : \E pos \in Positions(data, id) : NodeDragStop(id, pos)
  \/ \E sel \in Selections : SelectionChange(sel)
  \/ DepthEffect

Spec == Init /\ [][Next]_vars

-----------------------------------------------------------------------------
(* SpecAny: one state update applied to an arbitrary loaded document, which *)
(* may hold cycles, nodes with several parents, unreachable nodes and      *)
(* references to missing nodes                                             *)

AnyIds == 0..MaxAnyId

\* the elements of a set of ids in ascending order
RECURSIVE SeqOfSet(_)
SeqOfSet(S) ==
  IF S = {} THEN <<>>
  ELSE LET m == CHOOSE x \in S : \A y \in S : x <= y
       IN  <<m>> \o SeqOfSet(S \ {m})

\* a document over the keys S with the children sets kids and the stored
\* depths d, d+1, ... (mod MaxStoredDepth + 1)
AnyGraph(S, kids, d) ==
  [k \in S |->
     [children |-> SeqOfSet(kids[k]), visible |-> TRUE,
      depth |-> (d + k) % (MaxStoredDepth + 1)]]

InitAny ==
  /\ \E S \in (SUBSET AnyIds) \ {{}} :
       \E kids \in [S -> SUBSET AnyIds], d \in 0..MaxStoredDepth :
         data = AnyGraph(S, kids, d)
  /\ loaded = data
  /\ last = Op("init", root)
  /\ nextId = MaxAnyId + 1
  /\ posY = EmptyObj
  /\ rec = NoRec
  /\ sync = NoSync

NextAny ==
  /\ last.op = "init"
  /\ \/ \E id \in AnyIds : DeleteSubtree(id)
     \/ DepthEffect

SpecAny == InitAny /\ [][NextAny]_vars

-----------------------------------------------------------------------------
(* SpecWalk: the two traversals on an arbitrary loaded document.  Neither   *)
(* walk reads the stored depths, which are all 0 here                       *)

InitWalk ==
  /\ \E S \in (SUBSET AnyIds) \ {{}} :
       \E kids \in [S -> SUBSET AnyIds] :
         data = [k \in S |-> Spread(AnyGraph(S, kids, 0)[k], [depth |-> 0])]
  /\ loaded = data
  /\ last = Op("init", root)
  /\ nextId = MaxAnyId + 1
  /\ posY = EmptyObj
  /\ rec = NoRec
  /\ sync = NoSync

NextWalk ==
  /\ last.op = "init"
  /\ \/ \E id \in AnyIds : DeleteSubtree(id)
     \/ DepthEffect

SpecWalk == InitWalk /\ [][NextWalk]_vars

-----------------------------------------------------------------------------
(* SpecOps: one handler of the graph store applied to a loaded document,   *)
(* with every input the handler accepts: any id, present or absent, any    *)
(* overrides and any patch. loaded keeps the document before the handler   *)

NoParent == 0 - 1

\* a document over the keys S in which par gives each node its parent (or
\* none) and vis its visible flag
OpsGraph(S, par, vis) ==
  [k \in S |->
     [children |-> SeqOfSet({c \in S : par[c] = k}), visible |-> vis[k],
      depth |-> k % (MaxStoredDepth + 1)]]

\* createChildNode(parentId, overrides): any object is accepted as overrides
AnyOverrides == Overrides \cup {[visible |-> FALSE]}

\* updateNode(patch): any object is accepted as patch
AnyPatches == Patches \cup {[children |-> <<>>]}

\* persistence.js, loadUserData: the stored document is normalized
LoadUserData ==
  /\ data' = NormalizeVisibilityOnFirstLoad(data)
  /\ last' = Op("normalize", root)
  /\ UNCHANGED <<loaded, nextId, posY, rec, sync>>

InitOps ==
  /\ \E S \in (SUBSET AnyIds) \ {{}} :
       \E par \in [S -> S \cup {NoParent}], vis \in [S -> BOOLEAN] :
         data = OpsGraph(S, par, vis)
  /\ loaded = data
  /\ last = Op("init", root)
  /\ nextId = MaxAnyId + 1
  /\ posY = EmptyObj
  /\ rec = NoRec
  /\ sync = NoSync

NextOps ==
  \/ /\ last.op = "init"
     /\ \/ \E p \in AnyIds, ov \in AnyOverrides : CreateChild(p, ov)
        \/ \E id \in AnyIds, patch \in AnyPatches : PatchNode(id, patch)
        \/ \E sel \in (SUBSET AnyIds) \ {{}} : SelectionChange(sel)
  \/ /\ last.op \in {"init", "normalize"}
     /\ LoadUserData

SpecOps == InitOps /\ [][NextOps]_vars

-----------------------------------------------------------------------------
(* SpecRecur: the recurrence effect applied once to a loaded document with  *)
(* one task under the root                                                 *)

\* the day the session runs on: 2024-01-10 counted from 2020-01-01 = day 0
Todays == {1470}

\* the due dates of the loaded task: none, 2020-01-01, 1001 days and 7 days
\* and 1 day before today, today, a week after today
DueDates == {NoDate, 0, 469, 1463, 1469, 1470, 1477}

RepeatValues == {0, 1, 7}

TaskDocument(completed, dueDate, repeatDays) ==
  SetKey(SetKey(InitialGraph, root, Spread(InitialGraph[root], [children |-> <<1>>])),
         1, Spread(Spread(NewNodeDefaults, [depth |-> 1]),
                   [completed |-> completed, dueDate |-> dueDate,
                    repeatDays |-> repeatDays]))

RecurrenceEffect ==
  /\ last.op = "init"
  /\ data' = AdvanceRecurringTasks(data, rec.today, rec.tz)
  /\ last' = Op("advance", root)
  /\ UNCHANGED <<loaded, nextId, posY, rec, sync>>

InitRecur ==
  /\ \E c \in BOOLEAN, d \in DueDates, r \in RepeatValues :
       data = TaskDocument(c, d, r)
  /\ loaded = data
  /\ last = Op("init", root)
  /\ nextId = 2
  /\ posY = EmptyObj
  /\ \E tz \in TimeZones, today \in Todays : rec = [tz |-> tz, today |-> today]
  /\ sync = NoSync

NextRecur == RecurrenceEffect

SpecRecur == InitRecur /\ [][NextRecur]_vars

-----------------------------------------------------------------------------
(* SpecDrag: dragging.  posY is the y coordinate of the React Flow node of  *)
(* each key that has one; onNodeDrag moves a node with its subtree,         *)
(* onNodeDragStop reorders the siblings of the dragged node by y.           *)

\* createChildNode, with the position the new React Flow node is given
CreateChildAt(parentId, y) ==
  /\ nextId <= MaxId
  /\ parentId \in DOMAIN data
  /\ data' = CreateChildNode(data, parentId, EmptyObj, nextId)
  /\ posY' = SetKey(posY, nextId, y)
  /\ nextId' = nextId + 1
  /\ last' = Op("create", root)
  /\ UNCHANGED <<loaded, rec, sync>>

\* onNodeDragStart + onNodeDrag: the node and its descendants move by dy
NodeDrag(id, y) ==
  LET ids == CollectToDelete(<<id>>, {}, data) \cap DOMAIN posY
      dy  == y - posY[id]
  IN  /\ dy # 0
      /\ \A k \in ids : posY[k] + dy \in 0..MaxPos
      /\ posY' = [k \in DOMAIN posY |-> IF k \in ids THEN posY[k] + dy ELSE posY[k]]
      /\ last' = Op("drag", id)
      /\ UNCHANGED <<data, loaded, nextId, rec, sync>>

DragStop(draggedId) ==
  /\ data' = OnNodeDragStop(data, draggedId, posY)
  /\ last' = Op("reorder", draggedId)
  /\ UNCHANGED <<loaded, nextId, posY, rec, sync>>

InitDrag ==
  /\ data \in {InitialGraph, NormalizeVisibilityOnFirstLoad(SampleGraph)}
  /\ loaded = data
  /\ last = Op("init", root)
  /\ nextId = Cardinality(DOMAIN data)
  /\ \E S \in SUBSET DOMAIN data : posY \in [S -> 0..MaxPos]
  /\ rec = NoRec
  /\ sync = NoSync

NextDrag ==
  \/ \E p \in KnownIds, y \in 0..MaxPos : CreateChildAt(p, y)
  \/ \E id \in DOMAIN posY, y \in 0..MaxPos : NodeDrag(id, y)
  \/ \E id \in DOMAIN posY : DragStop(id)

SpecDrag == InitDrag /\ [][NextDrag]_vars

-----------------------------------------------------------------------------
(* SpecBatch: the handlers of one render, called before the next render.    *)
(* A handler is a closure of the render that made it: what it reads from    *)
(* userData and nodes is the rendered snapshot (loaded here, with the       *)
(* positions posY), while the updater it hands to setUserData is applied to *)
(* the current state (data), which already holds the updates of the         *)
(* handlers called before it.  The rendered document is the root with n     *)
(* children made by createChildNode, or the sample document; every key has  *)
(* a React Flow node, the root's at y = 0 (it has no siblings to be sorted  *)
(* with).                                                                   *)

\* createChildNode whose updater appends to the rendered children list
\* (a variant of CreateChildFrom)
CreateChildFromRendered(snap, prev, parentId, overrides, newId) ==
  LET newNode == Spread(Spread(NewNodeDefaults, overrides),
                        [depth |-> ParentDepth(snap, parentId) + 1])
      parent  == Spread(IF parentId \in DOMAIN prev THEN prev[parentId] ELSE EmptyObj,
                        [children |-> ChildrenOf(snap, parentId) \o <<newId>>])
  IN  SetKey(SetKey(prev, newId, newNode), parentId, parent)

\* createChildNode: newNode is built from the rendered snapshot snap, the
\* updater spreads it and the longer children list into the current state prev
CreateChildFrom(snap, prev, parentId, overrides, newId) ==
  LET newNode == Spread(Spread(NewNodeDefaults, overrides),
                        [depth |-> ParentDepth(snap, parentId) + 1])
      parent  == Spread(IF parentId \in DOMAIN prev THEN prev[parentId] ELSE EmptyObj,
                        [children |-> ChildrenOf(prev, parentId) \o <<newId>>])
  IN  SetKey(SetKey(prev, newId, newNode), parentId, parent)

\* onNodeDragStop: parent, siblings and sorted order come from the rendered
\* snapshot snap, the updater writes that order into the current state prev
OnNodeDragStopFrom(snap, prev, draggedId, pos) ==
  IF ~ReorderUpdates(snap, draggedId, pos) THEN prev
  ELSE LET parentId == FindParent(snap, draggedId)
       IN  SetKey(prev, parentId,
                  Spread(IF parentId \in DOMAIN prev THEN prev[parentId] ELSE EmptyObj,
                         [children |-> SortedChildren(snap, parentId, pos)]))

BatchCreateChild(parentId, overrides) ==
  /\ nextId <= MaxId
  /\ data' = CreateChildFrom(loaded, data, parentId, overrides, nextId)
  /\ nextId' = nextId + 1
  /\ last' = [op |-> "create", id |-> parentId, newId |-> nextId]
  /\ UNCHANGED <<loaded, posY, rec, sync>>

BatchDeleteSubtree(id) ==
  /\ data' = DeleteNodeById(data, id)
  /\ last' = Op("delete", id)
  /\ UNCHANGED <<loaded, nextId, posY, rec, sync>>

BatchDragStop(draggedId) ==
  /\ data' = OnNodeDragStopFrom(loaded, data, draggedId, posY)
  /\ last' = [op |-> "reorder", id |-> draggedId,
              updated |-> ReorderUpdates(loaded, draggedId, posY)]
  /\ UNCHANGED <<loaded, nextId, posY, rec, sync>>

\* the document after n calls createChildNode("root") on the initial document
RECURSIVE FlatGraph(_)
FlatGraph(n) ==
  IF n = 0 THEN InitialGraph
  ELSE CreateChildNode(FlatGraph(n - 1), root, EmptyObj, n)

InitBatch ==
  /\ data \in {FlatGraph(n) : n \in 0..MaxId}
              \cup {NormalizeVisibilityOnFirstLoad(SampleGraph)}
  /\ loaded = data
  /\ last = Op("init", root)
  /\ nextId = Cardinality(DOMAIN data)
  /\ posY \in {pos \in [DOMAIN data -> 0..MaxPos] : pos[root] = 0}
  /\ rec = NoRec
  /\ sync = NoSync

NextBatch ==
  \/ \E p \in KnownIds : BatchCreateChild(p, EmptyObj)
  \/ \E id \in KnownIds : BatchDeleteSubtree(id)
  \/ \E id \in DOMAIN posY : BatchDragStop(id)

SpecBatch == InitBatch /\ [][NextBatch]_vars

-----------------------------------------------------------------------------
(* The synchronisation hooks.  A snapshot of the document is a number in    *)
(* 1..MaxSnap; sync holds the refs and the status of the hook, the remote   *)
(* requests that are outstanding, and an observation of the current burst   *)
(* of schedule calls:                                                      *)
(*   phase  "window" while a debounce timer armed by a schedule call runs, *)
(*          "fired" once it fired with no write in flight, "settled" once  *)
(*          the write it started completed, "none" otherwise               *)
(*   n      the number of schedule calls of the burst (MaxBurst: or more)  *)
(*   snap   the snapshot of the last schedule call of the burst            *)
(*   wrote  the payloads of the writes started since the timer fired       *)

NullDoc == 0

Snapshots == 1..MaxSnap

NoBurst == [phase |-> "none", n |-> 0, snap |-> NullDoc, wrote |-> <<>>]

\* removes the i-th element of a sequence
RemoveAt(s, i) == SubSeq(s, 1, i - 1) \o SubSeq(s, i + 1, Len(s))

\* no write is in flight and none waits behind one
Quiet(s) ==
  IF s.engine = "drive" THEN s.inflight = <<>>
  ELSE s.running = <<>> /\ s.jobs = <<>>

\* the number of requests that write the document's content and are
\* outstanding
Outstanding(s) ==
  IF s.engine = "drive" THEN Len(s.inflight)
  ELSE Cardinality({i \in DOMAIN s.running :
                      s.running[i].stage = "write" /\ ~s.running[i].waiting})

\* the observation after an event took the hook from s0 to s1
Observe(event, v, s0, s1) ==
  LET phase ==
        CASE event = "schedule" ->
               IF s1.timer = 0 THEN "none"
               ELSE IF s0.timer = 0 \/ s0.phase = "window" THEN "window"
               ELSE "none"
          [] event = "fire" ->
               IF s0.phase = "window"
               THEN (IF Quiet(s0) THEN "fired" ELSE "none")
               ELSE IF s0.phase \in {"fired", "settled"} THEN s0.phase
               ELSE "none"
          [] event = "complete" ->
               IF s0.phase = "fired" THEN "settled" ELSE s0.phase
          [] event = "neutral" -> s0.phase
          [] OTHER -> "none"
      n == IF event # "schedule" THEN s0.n
           ELSE IF s0.timer = 0 THEN 1
           ELSE IF s0.n < MaxBurst THEN s0.n + 1 ELSE s0.n
  IN  IF phase = "none" THEN Spread(s1, NoBurst)
      ELSE Spread(s1, [phase |-> phase, n |-> n,
                       snap |-> IF event = "schedule" THEN v ELSE s0.snap,
                       wrote |-> IF phase = "window" THEN <<>> ELSE s1.wrote])

\* the remote document after a write of payload was accepted; the sessions
\* that follow its content carry it in the field remote
Store(s, payload) ==
  IF "remote" \in DOMAIN s THEN [s EXCEPT !.remote = payload] ELSE s

-----------------------------------------------------------------------------
(* googleAPI.js: useGoogleDriveState *)

DriveInit ==
  Spread([engine |-> "drive", mounted |-> TRUE, reading |-> TRUE,
          loaded |-> FALSE, reqLoading |-> FALSE, timer |-> 0, saving |-> FALSE,
          queued |-> FALSE, latest |-> NullDoc, status |-> "loading",
          inflight |-> <<>>],
         NoBurst)

\* performSave without the savingRef test (a variant of PerformSave)
PerformSaveUnguarded(s) ==
  IF ~s.mounted THEN s
  ELSE IF ~s.loaded THEN [s EXCEPT !.reqLoading = TRUE]
  ELSE [s EXCEPT !.saving = TRUE, !.status = "saving",
                 !.inflight = Append(@, s.latest),
                 !.wrote = Append(@, s.latest)]

\* performSave up to its await: writeAppDataConfig serialises latestRef.current
\* before it first suspends
PerformSave(s) ==
  IF ~s.mounted THEN s
  ELSE IF ~s.loaded THEN [s EXCEPT !.reqLoading = TRUE]
  ELSE IF s.saving THEN [s EXCEPT !.queued = TRUE]
  ELSE [s EXCEPT !.saving = TRUE, !.status = "saving",
                 !.inflight = Append(@, s.latest),
                 !.wrote = Append(@, s.latest)]

\* scheduleSave that leaves the previous timer running (a variant of
\* ScheduleSave)
ScheduleSaveNoClear(s) ==
  IF ~s.mounted THEN s
  ELSE IF ~s.loaded THEN [s EXCEPT !.reqLoading = TRUE]
  ELSE [s EXCEPT !.timer = @ + 1]

\* scheduleSave (autoSave is true); timer is the number of armed timers
ScheduleSave(s) ==
  IF ~s.mounted THEN s
  ELSE IF ~s.loaded THEN [s EXCEPT !.reqLoading = TRUE]
  ELSE [s EXCEPT !.timer = 1]

SetState(v) ==
  /\ sync.engine = "drive"
  /\ sync' = Observe("schedule", v, sync,
                     ScheduleSave([sync EXCEPT !.latest = v]))
  /\ last' = Op("schedule", root)
  /\ UNCHANGED <<data, loaded, nextId, posY, rec>>

\* the debounce timer fires
TimerFire ==
  /\ sync.engine = "drive"
  /\ sync.timer > 0
  /\ sync' = Observe("fire", NullDoc, sync,
                     PerformSave([sync EXCEPT !.timer = @ - 1]))
  /\ last' = Op("fire", root)
  /\ UNCHANGED <<data, loaded, nextId, posY, rec>>

\* what flush() did: resolved says that its promise resolved at once, with
\* no write awaited
FlushReport(resolved) ==
  [op |-> "flush", id |-> root, resolved |-> resolved]

\* flush: await performSave() resolves at once when performSave returns
\* before its await
Flush ==
  /\ sync.engine = "drive"
  /\ sync' = Observe("flush", NullDoc, sync,
                     PerformSave([sync EXCEPT !.timer = 0]))
  /\ last' = FlushReport(PerformSave(sync).inflight = sync.inflight)
  /\ UNCHANGED <<data, loaded, nextId, posY, rec>>

\* writeAppDataConfig: returns the metadata of the file when the write
\* succeeded (ok); a response that is not ok and every exception, caught by
\* its own catch, make it return null.  It never throws
WriteAppDataConfig(ok) == [thrown |-> FALSE, meta |-> ok]

\* what performSave did after writeAppDataConfig returned: the try block
\* assigns lastSavedAtRef (meta?.modifiedTime, or the current time when meta
\* is null), the catch block assigns lastErrorRef and calls onSaveError
DriveReport(ok) ==
  LET r == WriteAppDataConfig(ok)
  IN  [op |-> "complete", id |-> root, ok |-> ok, lastSavedAt |-> ~r.thrown,
       lastError |-> r.thrown, onSaveError |-> r.thrown]

\* the finally block of performSave without the chained save (a variant of
\* WriteComplete)
WriteCompleteNoChain(i, ok) ==
  /\ sync.engine = "drive"
  /\ i \in DOMAIN sync.inflight
  /\ LET s0 == IF ok THEN Store(sync, sync.inflight[i]) ELSE sync
         s1 == [s0 EXCEPT !.inflight = RemoveAt(@, i), !.saving = FALSE,
                          !.status = IF sync.mounted THEN "idle" ELSE @]
     IN  sync' = Observe("complete", NullDoc, sync, s1)
  /\ last' = DriveReport(ok)
  /\ UNCHANGED <<data, loaded, nextId, posY, rec>>

\* writeAppDataConfig returns for the i-th outstanding write, with the
\* metadata of the file (ok) or with null: the rest of performSave
WriteComplete(i, ok) ==
  /\ sync.engine = "drive"
  /\ i \in DOMAIN sync.inflight
  /\ LET s0 == IF ok THEN Store(sync, sync.inflight[i]) ELSE sync
         s1 == [s0 EXCEPT !.inflight = RemoveAt(@, i), !.saving = FALSE,
                          !.status = IF sync.mounted THEN "idle" ELSE @]
         s2 == IF s1.queued THEN PerformSave([s1 EXCEPT !.queued = FALSE])
               ELSE s1
     IN  sync' = Observe("complete", NullDoc, sync, s2)
  /\ last' = DriveReport(ok)
  /\ UNCHANGED <<data, loaded, nextId, posY, rec>>

\* the initial load without the deferred save of its finally block (a
\* variant of LoadComplete)
LoadCompleteForgets(d) ==
  /\ sync.engine = "drive"
  /\ sync.reading
  /\ LET s0 == [sync EXCEPT !.reading = FALSE, !.reqLoading = FALSE]
         s1 == IF ~s0.mounted THEN s0
               ELSE [s0 EXCEPT !.latest = IF d # NullDoc THEN d ELSE @,
                               !.loaded = TRUE, !.status = "idle"]
     IN  sync' = Observe("load", NullDoc, sync, s1)
  /\ last' = Op("load", root)
  /\ UNCHANGED <<data, loaded, nextId, posY, rec>>

\* readAppDataConfig returns d (NullDoc: no readable document)
LoadComplete(d) ==
  /\ sync.engine = "drive"
  /\ sync.reading
  /\ LET s0 == [sync EXCEPT !.reading = FALSE]
         s1 == IF ~s0.mounted THEN s0
               ELSE [s0 EXCEPT !.latest = IF d # NullDoc THEN d ELSE @,
                               !.loaded = TRUE, !.status = "idle"]
         s2 == IF s1.reqLoading
               THEN ScheduleSave([s1 EXCEPT !.reqLoading = FALSE])
               ELSE s1
     IN  sync' = Observe("load", NullDoc, sync, s2)
  /\ last' = Op("load", root)
  /\ UNCHANGED <<data, loaded, nextId, posY, rec>>

Unmount ==
  /\ sync.engine = "drive"
  /\ sync.mounted
  /\ sync' = Observe("unmount", NullDoc, sync,
                     [sync EXCEPT !.mounted = FALSE, !.timer = 0])
  /\ last' = Op("unmount", root)
  /\ UNCHANGED <<data, loaded, nextId, posY, rec>>

-----------------------------------------------------------------------------
(* SpecHome: Home after the initial load.  The document (data) is the       *)
(* layout of the state of useGoogleDriveState; setUserData hands its        *)
(* updater to the hook's setState, which applies it and calls scheduleSave. *)
(* latest numbers the documents the hook has seen.  The loaded document is  *)
(* a forest over the keys 0..MaxAnyId with any stored depths.               *)

\* the hook once readAppDataConfig has returned the document 1
HomeLoaded ==
  [DriveInit EXCEPT !.reading = FALSE, !.loaded = TRUE, !.status = "idle",
                    !.latest = 1]

\* the number of the document next after the update of latestRef: the same
\* when the updater returned the object it was given
NextSnapshot(s, changed) ==
  IF changed THEN (s.latest % MaxSnap) + 1 ELSE s.latest

\* the depth effect: setUserData((prev) => ...) through setDriveCfg
HomeDepthEffect ==
  /\ sync.engine = "drive"
  /\ data' = RecomputeDepths(data)
  /\ LET v == NextSnapshot(sync, RecomputeDepths(data) # data)
     IN  sync' = Observe("schedule", v, sync,
                         ScheduleSave([sync EXCEPT !.latest = v]))
  /\ last' = Op("depths", root)
  /\ UNCHANGED <<loaded, nextId, posY, rec>>

InitHome ==
  /\ \E S \in (SUBSET AnyIds) \ {{}} :
       \E par \in [S -> S \cup {NoParent}] :
         data = OpsGraph(S, par, [k \in S |-> TRUE])
  /\ loaded = data
  /\ last = Op("init", root)
  /\ nextId = MaxAnyId + 1
  /\ posY = EmptyObj
  /\ rec = NoRec
  /\ sync = HomeLoaded

NextHome ==
  \/ HomeDepthEffect
  \/ TimerFire
  \/ \E i \in 1..MaxJobs, ok \in BOOLEAN : WriteComplete(i, ok)

SpecHome == InitHome /\ [][NextHome]_vars

-----------------------------------------------------------------------------
(* deprecated/useDriveBackedState.js: useDriveBackedState.  running holds   *)
(* the save jobs that have started, each with its stage ("search" and      *)
(* "create" are the requests of ensureFileId, "write" is saveWithRetry),    *)
(* the attempt counter of saveWithRetry, the number of driveUpdateJson      *)
(* calls made (tries) and whether it waits out a backoff; jobs holds the    *)
(* payloads of the jobs chained behind them on inflightSaveRef.  state is   *)
(* the React state, fileId says whether fileIdRef holds an id.  auth is the *)
(* stage of the running mount or connect flow: "pending" (token requested), *)
(* "granted" (the search of ensureFileId runs), "creating" (its create      *)
(* runs), "download", or "none".  existing says whether the appDataFolder   *)
(* held a file of that name when the session began, created counts the     *)
(* files the session has created                                           *)

\* the hook once its mount effect has started the silent sign-in
BackedInit(existing) ==
  Spread([engine |-> "backed", token |-> FALSE, destroyed |-> FALSE,
          pending |-> NullDoc, timer |-> 0, jobs |-> <<>>, running |-> <<>>,
          status |-> "loading", auth |-> "pending", flow |-> "mount",
          state |-> NullDoc, fileId |-> FALSE, existing |-> existing,
          created |-> 0],
         NoBurst)

\* driveSearchByName: what the search finds when it is answered
Found(s) == s.existing \/ s.created > 0

\* authedFetch: a call is sent with the bearer credential of tokenRef
CanSend(s) == s.token

\* the job starts: ensureFileId returns the cached id or searches for the
\* file; with the id, the first attempt of saveWithRetry
StartJob(s, payload) ==
  [s EXCEPT !.running = Append(@, [payload |-> payload,
                                   stage |-> IF s.fileId THEN "write"
                                             ELSE "search",
                                   attempt |-> 0,
                                   tries |-> IF s.fileId THEN 1 ELSE 0,
                                   waiting |-> FALSE]),
            !.wrote = Append(@, payload)]

\* inflightSaveRef.current = inflightSaveRef.current.then(job)
Chain(s, payload) ==
  IF s.running = <<>> THEN StartJob(s, payload)
  ELSE [s EXCEPT !.jobs = Append(@, payload)]

\* the body shared by the timer callback and flush: take the pending payload
TakePending(s) ==
  IF s.pending = NullDoc THEN s
  ELSE Chain([s EXCEPT !.pending = NullDoc, !.status = "saving"], s.pending)

ScheduleSaveBacked(s, jsonObj) ==
  [s EXCEPT !.pending = jsonObj, !.timer = 1]

\* the setter without the token test (a variant of SetAndBackup)
SetAndBackupUnchecked(v) ==
  /\ sync.engine = "backed"
  /\ ~sync.destroyed
  /\ sync' = Observe("schedule", v, sync,
                     ScheduleSaveBacked([sync EXCEPT !.state = v], v))
  /\ last' = Op("schedule", root)
  /\ UNCHANGED <<data, loaded, nextId, posY, rec>>

SetAndBackup(v) ==
  /\ sync.engine = "backed"
  /\ ~sync.destroyed
  /\ sync' = Observe("schedule", v, sync,
                     IF sync.token
                     THEN ScheduleSaveBacked([sync EXCEPT !.state = v], v)
                     ELSE [sync EXCEPT !.state = v, !.pending = v])
  /\ last' = Op("schedule", root)
  /\ UNCHANGED <<data, loaded, nextId, posY, rec>>

TimerFireBacked ==
  /\ sync.engine = "backed"
  /\ sync.timer > 0
  /\ Len(sync.jobs) < MaxJobs
  /\ sync' = Observe("fire", NullDoc, sync,
                     TakePending([sync EXCEPT !.timer = @ - 1]))
  /\ last' = Op("fire", root)
  /\ UNCHANGED <<data, loaded, nextId, posY, rec>>

FlushBacked ==
  /\ sync.engine = "backed"
  /\ Len(sync.jobs) < MaxJobs
  /\ sync' = Observe("flush", NullDoc, sync,
                     TakePending([sync EXCEPT !.timer = 0]))
  /\ last' = FlushReport(sync.pending = NullDoc)
  /\ UNCHANGED <<data, loaded, nextId, posY, rec>>

\* the job ends without setting the status (a variant of JobEnd)
JobEndKeepStatus(s, i, status) ==
  LET s1 == [s EXCEPT !.running = RemoveAt(@, i)]
  IN  IF s1.jobs = <<>> THEN s1
      ELSE StartJob([s1 EXCEPT !.jobs = Tail(@)], Head(s1.jobs))

\* the i-th running job ends with the given status; the next chained job
\* starts
JobEnd(s, i, status) ==
  LET s1 == [s EXCEPT !.running = RemoveAt(@, i),
                      !.status = IF s.destroyed THEN @ ELSE status]
  IN  IF s1.jobs = <<>> THEN s1
      ELSE StartJob([s1 EXCEPT !.jobs = Tail(@)], Head(s1.jobs))

\* the outcome of a job with onSaveError never called (a variant of JobReport)
JobReportSilent(tries, failures, outcome) ==
  [op |-> "complete", id |-> root, tries |-> tries, failures |-> failures,
   outcome |-> outcome, onSaveError |-> FALSE]

\* what the job that just ended did: the driveUpdateJson calls it made, the
\* failures among them, its outcome and whether onSaveError was called
JobReport(tries, failures, outcome) ==
  [op |-> "complete", id |-> root, tries |-> tries, failures |-> failures,
   outcome |-> outcome, onSaveError |-> (outcome = "error")]

\* a request of ensureFileId of the i-th running job returns: the search
\* finds the file ("found") or not ("none"), the create returns the new id
\* ("created"), or the request fails ("error")
JobResolve(i, outcome) ==
  /\ sync.engine = "backed"
  /\ i \in DOMAIN sync.running
  /\ LET job == sync.running[i]
     IN  /\ \/ job.stage = "search" /\ outcome \in {"found", "none", "error"}
            \/ job.stage = "create" /\ outcome \in {"created", "error"}
         /\ outcome # "error" => CanSend(sync)
         /\ outcome = "found" => Found(sync)
         /\ outcome = "none" => ~Found(sync)
         /\ IF outcome = "error"
            THEN /\ sync' = Observe("complete", NullDoc, sync,
                                    JobEnd(sync, i, "error"))
                 /\ last' = JobReport(job.tries, job.attempt, "error")
            ELSE /\ sync' = Observe("neutral", NullDoc, sync,
                        IF outcome = "none"
                        THEN [sync EXCEPT !.running[i].stage = "create"]
                        ELSE [sync EXCEPT !.fileId = TRUE,
                                          !.created =
                                             IF outcome = "created"
                                             THEN @ + 1 ELSE @,
                                          !.running[i].stage = "write",
                                          !.running[i].tries = 1])
                 /\ last' = Op("resolve", root)
  /\ UNCHANGED <<data, loaded, nextId, posY, rec>>

\* driveUpdateJson of the i-th running job returns
WriteSucceed(i) ==
  /\ sync.engine = "backed"
  /\ i \in DOMAIN sync.running
  /\ sync.running[i].stage = "write"
  /\ ~sync.running[i].waiting
  /\ CanSend(sync)
  /\ sync' = Observe("complete", NullDoc, sync,
                     JobEnd(Store(sync, sync.running[i].payload), i, "idle"))
  /\ last' = JobReport(sync.running[i].tries, sync.running[i].attempt,
                       "ok")
  /\ UNCHANGED <<data, loaded, nextId, posY, rec>>

\* the catch of saveWithRetry with one more retry allowed (a variant of
\* WriteFail)
WriteFailOneMore(i, retryable) ==
  /\ sync.engine = "backed"
  /\ i \in DOMAIN sync.running
  /\ sync.running[i].stage = "write"
  /\ ~sync.running[i].waiting
  /\ retryable => CanSend(sync)
  /\ LET attempt == sync.running[i].attempt + 1
     IN  IF retryable /\ attempt <= MaxAttempts
         THEN /\ sync' = Observe("neutral", NullDoc, sync,
                             [sync EXCEPT !.running[i].attempt = attempt,
                                          !.running[i].waiting = TRUE])
              /\ last' = Op("fail", root)
         ELSE /\ sync' = Observe("complete", NullDoc, sync,
                                 JobEnd(sync, i, "error"))
              /\ last' = Spread(JobReport(sync.running[i].tries, attempt,
                                          "error"),
                                [retryable |-> retryable])
  /\ UNCHANGED <<data, loaded, nextId, posY, rec>>

\* driveUpdateJson of the i-th running job throws; retryable says whether
\* the message matches the retry pattern (a response status or a network
\* failure of a request that was sent)
WriteFail(i, retryable) ==
  /\ sync.engine = "backed"
  /\ i \in DOMAIN sync.running
  /\ sync.running[i].stage = "write"
  /\ ~sync.running[i].waiting
  /\ retryable => CanSend(sync)
  /\ LET attempt == sync.running[i].attempt + 1
     IN  IF retryable /\ attempt < MaxAttempts
         THEN /\ sync' = Observe("neutral", NullDoc, sync,
                             [sync EXCEPT !.running[i].attempt = attempt,
                                          !.running[i].waiting = TRUE])
              /\ last' = Op("fail", root)
         ELSE /\ sync' = Observe("complete", NullDoc, sync,
                                 JobEnd(sync, i, "error"))
              /\ last' = Spread(JobReport(sync.running[i].tries, attempt,
                                          "error"),
                                [retryable |-> retryable])
  /\ UNCHANGED <<data, loaded, nextId, posY, rec>>

\* the backoff wait of the i-th running job is over: the next attempt
BackoffElapsed(i) ==
  /\ sync.engine = "backed"
  /\ i \in DOMAIN sync.running
  /\ sync.running[i].waiting
  /\ sync' = Observe("neutral", NullDoc, sync,
                     [sync EXCEPT !.running[i].waiting = FALSE,
                                  !.running[i].tries = @ + 1])
  /\ last' = Op("retry", root)
  /\ UNCHANGED <<data, loaded, nextId, posY, rec>>

\* the token client calls back with an access token
AuthGrant ==
  /\ sync.engine = "backed"
  /\ sync.auth = "pending"
  /\ sync' = Observe("neutral", NullDoc, sync,
                     [sync EXCEPT !.token = TRUE,
                                  !.auth = IF sync.fileId THEN "download"
                                           ELSE "granted"])
  /\ last' = Op("grant", root)
  /\ UNCHANGED <<data, loaded, nextId, posY, rec>>

\* a request of a running job finds no token and asks for one silently; the
\* token client calls back with an access token
JobGrant ==
  /\ sync.engine = "backed"
  /\ ~sync.token
  /\ \E i \in DOMAIN sync.running : ~sync.running[i].waiting
  /\ sync' = Observe("neutral", NullDoc, sync, [sync EXCEPT !.token = TRUE])
  /\ last' = Op("grant", root)
  /\ UNCHANGED <<data, loaded, nextId, posY, rec>>

\* the sign-in or the load that follows it fails
AuthFail ==
  /\ sync.engine = "backed"
  /\ sync.auth \in {"pending", "granted", "creating", "download"}
  /\ sync' = Observe("neutral", NullDoc, sync,
                     [sync EXCEPT !.auth = "none",
                                  !.status = IF sync.flow = "mount"
                                             THEN "needs_auth" ELSE "error"])
  /\ last' = Op("autherr", root)
  /\ UNCHANGED <<data, loaded, nextId, posY, rec>>

\* a request of ensureFileId of the mount effect or of connect returns: the
\* search finds the file ("found") or not ("none"), or the create returns the
\* new id ("created")
FlowResolved(outcome) ==
  /\ sync.engine = "backed"
  /\ \/ sync.auth = "granted" /\ outcome = "found" /\ Found(sync)
     \/ sync.auth = "granted" /\ outcome = "none" /\ ~Found(sync)
     \/ sync.auth = "creating" /\ outcome = "created"
  /\ sync' = Observe("neutral", NullDoc, sync,
                     IF outcome = "none"
                     THEN [sync EXCEPT !.auth = "creating"]
                     ELSE [sync EXCEPT !.auth = "download", !.fileId = TRUE,
                                       !.created = IF outcome = "created"
                                                   THEN @ + 1 ELSE @])
  /\ last' = Op("resolve", root)
  /\ UNCHANGED <<data, loaded, nextId, posY, rec>>

\* driveDownloadJson of the mount effect or of connect returns cloud
\* (NullDoc: no content, or content that is no object): the content of the
\* remote document where the session follows it
LoadDone(cloud) ==
  /\ sync.engine = "backed"
  /\ sync.auth = "download"
  /\ "remote" \in DOMAIN sync => cloud = sync.remote
  /\ sync' = Observe("neutral", NullDoc, sync,
                     [sync EXCEPT !.auth = "none", !.status = "idle",
                                  !.state = IF cloud # NullDoc THEN cloud
                                            ELSE @])
  /\ last' = Op("load", root)
  /\ UNCHANGED <<data, loaded, nextId, posY, rec>>

Connect ==
  /\ sync.engine = "backed"
  /\ sync.auth = "none"
  /\ sync' = Observe("neutral", NullDoc, sync,
                     [sync EXCEPT !.auth = "pending", !.flow = "connect",
                                  !.status = "loading"])
  /\ last' = Op("connect", root)
  /\ UNCHANGED <<data, loaded, nextId, posY, rec>>

UnmountBacked ==
  /\ sync.engine = "backed"
  /\ ~sync.destroyed
  /\ sync' = Observe("unmount", NullDoc, sync,
                     [sync EXCEPT !.destroyed = TRUE, !.timer = 0])
  /\ last' = Op("unmount", root)
  /\ UNCHANGED <<data, loaded, nextId, posY, rec>>

-----------------------------------------------------------------------------
(* SpecSync: a session of either hook under every interleaving of edits,   *)
(* timer fires, flushes and completions of remote requests.  A write that  *)
(* fails ends its job here; the retries of saveWithRetry are in SpecEdits  *)

InitSync ==
  /\ data = InitialGraph
  /\ loaded = data
  /\ last = Op("init", root)
  /\ nextId = 1
  /\ posY = EmptyObj
  /\ rec = NoRec
  /\ sync \in {DriveInit} \cup {BackedInit(existing) : existing \in BOOLEAN}

NextSync ==
  \/ \E v \in Snapshots : SetState(v)
  \/ TimerFire
  \/ Flush
  \/ \E i \in 1..MaxJobs, ok \in BOOLEAN : WriteComplete(i, ok)
  \/ \E d \in Snapshots \cup {NullDoc} : LoadComplete(d)
  \/ Unmount
  \/ \E v \in Snapshots : SetAndBackup(v)
  \/ TimerFireBacked
  \/ FlushBacked
  \/ \E i \in 1..MaxJobs :
       \E outcome \in {"found", "none", "created", "error"} :
         JobResolve(i, outcome)
  \/ \E i \in 1..MaxJobs : WriteSucceed(i)
  \/ \E i \in 1..MaxJobs : WriteFail(i, FALSE)
  \/ AuthGrant
  \/ JobGrant
  \/ AuthFail
  \/ \E outcome \in {"found", "none", "created"} : FlowResolved(outcome)
  \/ \E cloud \in Snapshots \cup {NullDoc} : LoadDone(cloud)
  \/ Connect
  \/ UnmountBacked

SpecSync == InitSync /\ [][NextSync]_vars

-----------------------------------------------------------------------------
(* SpecEdits: a session of either hook in which the user only edits: the   *)
(* load, edits, timer fires and completions of remote requests, with the   *)
(* retries of saveWithRetry, without flush, connect or unmount             *)

NextEdits ==
  \/ \E v \in Snapshots : SetState(v)
  \/ TimerFire
  \/ \E i \in 1..MaxJobs, ok \in BOOLEAN : WriteComplete(i, ok)
  \/ \E d \in Snapshots \cup {NullDoc} : LoadComplete(d)
  \/ \E v \in Snapshots : SetAndBackup(v)
  \/ TimerFireBacked
  \/ \E i \in 1..MaxJobs :
       \E outcome \in {"found", "none", "created", "error"} :
         JobResolve(i, outcome)
  \/ \E i \in 1..MaxJobs : WriteSucceed(i)
  \/ \E i \in 1..MaxJobs, retryable \in BOOLEAN : WriteFail(i, retryable)
  \/ \E i \in 1..MaxJobs : BackoffElapsed(i)
  \/ AuthGrant
  \/ AuthFail
  \/ \E outcome \in {"found", "none", "created"} : FlowResolved(outcome)
  \/ \E cloud \in Snapshots \cup {NullDoc} : LoadDone(cloud)

SpecEdits == InitSync /\ [][NextEdits]_vars

-----------------------------------------------------------------------------
(* SpecPersist: a session of either hook after its load, with the           *)
(* credential in hand: edits, timer fires and completions of writes that    *)
(* succeed.  remote is the content of the remote document, which the load  *)
(* has just read.  An armed timer eventually fires and a write that was    *)
(* sent is eventually answered                                             *)

\* useGoogleDriveState once readAppDataConfig has returned the document d
DriveLoaded(d) ==
  Spread([DriveInit EXCEPT !.reading = FALSE, !.loaded = TRUE,
                           !.status = "idle", !.latest = d],
         [remote |-> d])

\* useDriveBackedState once its mount effect has downloaded the document d
BackedLoaded(d) ==
  Spread([BackedInit(TRUE) EXCEPT !.token = TRUE, !.auth = "none",
                                  !.status = "idle", !.state = d,
                                  !.fileId = TRUE],
         [remote |-> d])

\* the latest local snapshot: latestRef.current, or the React state
Local(s) == IF s.engine = "drive" THEN s.latest ELSE s.state

\* a local edit
Edit == \E v \in Snapshots : SetState(v) \/ SetAndBackup(v)

InitPersist ==
  /\ data = InitialGraph
  /\ loaded = data
  /\ last = Op("init", root)
  /\ nextId = 1
  /\ posY = EmptyObj
  /\ rec = NoRec
  /\ sync \in {DriveLoaded(d) : d \in Snapshots}
              \cup {BackedLoaded(d) : d \in Snapshots}

NextPersist ==
  \/ \E v \in Snapshots : SetState(v)
  \/ \E v \in Snapshots : SetAndBackup(v)
  \/ TimerFire
  \/ \E i \in 1..MaxJobs : WriteComplete(i, TRUE)
  \/ TimerFireBacked
  \/ \E i \in 1..MaxJobs : WriteSucceed(i)

SpecPersist ==
  /\ InitPersist
  /\ [][NextPersist]_vars
  /\ WF_vars(TimerFire)
  /\ WF_vars(\E i \in 1..MaxJobs : WriteComplete(i, TRUE))
  /\ WF_vars(TimerFireBacked)
  /\ WF_vars(\E i \in 1..MaxJobs : WriteSucceed(i))

-----------------------------------------------------------------------------
(* SpecRetain: a session of useDriveBackedState from its mount, the sign-in *)
(* included: edits before and after the credential arrives, the silent     *)
(* flow, connect(), timer fires and the requests of the save jobs, all of   *)
(* them answered with success.  remote is the content of the remote        *)
(* document.  Timers fire and requests that were sent are answered; edits  *)
(* and connect() are the user's and may never come                         *)

InitRetain ==
  /\ data = InitialGraph
  /\ loaded = data
  /\ last = Op("init", root)
  /\ nextId = 1
  /\ posY = EmptyObj
  /\ rec = NoRec
  /\ sync \in {Spread(BackedInit(FALSE), [remote |-> NullDoc])}
              \cup {Spread(BackedInit(TRUE), [remote |-> d]) : d \in Snapshots}

NextRetain ==
  \/ \E v \in Snapshots : SetAndBackup(v)
  \/ TimerFireBacked
  \/ \E i \in 1..MaxJobs :
       \E outcome \in {"found", "none", "created"} : JobResolve(i, outcome)
  \/ \E i \in 1..MaxJobs : WriteSucceed(i)
  \/ AuthGrant
  \/ AuthFail
  \/ \E outcome \in {"found", "none", "created"} : FlowResolved(outcome)
  \/ \E cloud \in Snapshots \cup {NullDoc} : LoadDone(cloud)
  \/ Connect

SpecRetain ==
  /\ InitRetain
  /\ [][NextRetain]_vars
  /\ WF_vars(TimerFireBacked)
  /\ WF_vars(\E i \in 1..MaxJobs :
               \E outcome \in {"found", "none", "created"} :
                 JobResolve(i, outcome))
  /\ WF_vars(\E i \in 1..MaxJobs : WriteSucceed(i))
  /\ WF_vars(\E outcome \in {"found", "none", "created"} :
               FlowResolved(outcome))
  /\ WF_vars(\E cloud \in Snapshots \cup {NullDoc} : LoadDone(cloud))

-----------------------------------------------------------------------------
(* SpecCall: googleAPI.js, one readAppDataConfig (the load of the mount     *)
(* effect) or one writeAppDataConfig (a save started by performSave), each  *)
(* a sequence of fetchWithDriveToken calls. token is lastAccessToken; sends, *)
(* refreshes and prompts count the fetches, the credential refreshes and   *)
(* the interactive (prompt: "consent") requests of the current call, and   *)
(* status is the status of its last response (0: none)                     *)

\* the response statuses: ok, unauthorized, forbidden, server error
Statuses == {200, 401, 403, 500}

\* the interactiveOnAuthFail option the call sites pass
InteractiveOnAuthFail(op) == op = "write"

CallInit(token) ==
  [engine |-> "call", op |-> "none", stage |-> "none", pc |-> "idle",
   token |-> token, sends |-> 0, refreshes |-> 0, prompts |-> 0,
   status |-> 0, result |-> "none"]

\* fetchWithDriveToken up to its first suspension: ensureAccessToken returns
\* the cached token, or asks for one silently
BeginFetch(s, stage) ==
  [s EXCEPT !.stage = stage, !.refreshes = 0, !.prompts = 0, !.status = 0,
            !.sends = IF s.token THEN 1 ELSE 0,
            !.pc = IF s.token THEN "sent" ELSE "token"]

\* the call throws, or returns a response that is not ok: the operation
\* returns null
FailCall(s, result) == [s EXCEPT !.pc = "done", !.result = result]

\* the call returns an ok response: the operation goes on
FinishFetch(s, found) ==
  IF s.stage = "list"
  THEN IF s.op = "read"
       THEN IF found THEN BeginFetch(s, "download")
            ELSE [s EXCEPT !.pc = "done", !.result = "not_found"]
       ELSE BeginFetch(s, IF found THEN "update" ELSE "create")
  ELSE [s EXCEPT !.pc = "done", !.result = "ok"]

\* readAppDataConfig() or writeAppDataConfig(data) is called
StartOperation(op) ==
  /\ sync.engine = "call"
  /\ sync.pc \in {"idle", "done"}
  /\ sync' = BeginFetch([sync EXCEPT !.op = op, !.result = "none"], "list")
  /\ last' = Op(op, root)
  /\ UNCHANGED <<data, loaded, nextId, posY, rec>>

\* the silent request of the first ensureAccessToken answers
TokenAnswer(granted) ==
  /\ sync.engine = "call"
  /\ sync.pc = "token"
  /\ sync' = IF granted
             THEN [sync EXCEPT !.token = TRUE, !.pc = "sent", !.sends = 1]
             ELSE FailCall(sync, "no_token")
  /\ last' = Op("token", root)
  /\ UNCHANGED <<data, loaded, nextId, posY, rec>>

\* the handling of a 401/403 that keeps the cached token and sends again (a
\* variant of AuthRejected)
AuthRejectedResend(s) ==
  [s EXCEPT !.sends = @ + 1, !.pc = "sent"]

\* res.status is 401 or 403: the cached token is cleared and
\* ensureAccessToken asks for a new one, silently first
AuthRejected(s) ==
  [s EXCEPT !.token = FALSE, !.refreshes = @ + 1, !.pc = "silent"]

\* the first fetch answers with status (0: fetch throws)
Response(status, found) ==
  /\ sync.engine = "call"
  /\ sync.pc = "sent"
  /\ LET s == [sync EXCEPT !.status = status]
     IN  sync' = IF status \in {401, 403} THEN AuthRejected(s)
                 ELSE IF status = 200 THEN FinishFetch(s, found)
                 ELSE FailCall(s, IF status = 0 THEN "error" ELSE "http")
  /\ last' = Op("response", root)
  /\ UNCHANGED <<data, loaded, nextId, posY, rec>>

\* the silent request of the refresh gave no token: ensureAccessToken throws,
\* or asks again with prompt: "consent" when interactive is set
SilentFailed(s) ==
  IF InteractiveOnAuthFail(s.op)
  THEN [s EXCEPT !.pc = "consent", !.prompts = @ + 1]
  ELSE FailCall(s, "unauthorized")

\* the silent request of the refresh answers
SilentAnswer(granted) ==
  /\ sync.engine = "call"
  /\ sync.pc = "silent"
  /\ sync' = IF granted
             THEN [sync EXCEPT !.token = TRUE, !.pc = "resent",
                               !.sends = @ + 1]
             ELSE SilentFailed(sync)
  /\ last' = Op("silent", root)
  /\ UNCHANGED <<data, loaded, nextId, posY, rec>>

\* the interactive request of the refresh answers
ConsentAnswer(granted) ==
  /\ sync.engine = "call"
  /\ sync.pc = "consent"
  /\ sync' = IF granted
             THEN [sync EXCEPT !.token = TRUE, !.pc = "resent",
                               !.sends = @ + 1]
             ELSE FailCall(sync, "unauthorized")
  /\ last' = Op("consent", root)
  /\ UNCHANGED <<data, loaded, nextId, posY, rec>>

\* the second fetch answers: its response is returned as it is
RetryResponse(status, found) ==
  /\ sync.engine = "call"
  /\ sync.pc = "resent"
  /\ LET s == [sync EXCEPT !.status = status]
     IN  sync' = IF status = 200 THEN FinishFetch(s, found)
                 ELSE FailCall(s, IF status = 0 THEN "error" ELSE "http")
  /\ last' = Op("retried", root)
  /\ UNCHANGED <<data, loaded, nextId, posY, rec>>

InitCall ==
  /\ data = InitialGraph
  /\ loaded = data
  /\ last = Op("init", root)
  /\ nextId = 1
  /\ posY = EmptyObj
  /\ rec = NoRec
  /\ sync \in {CallInit(token) : token \in BOOLEAN}

NextCall ==
  \/ \E op \in {"read", "write"} : StartOperation(op)
  \/ \E granted \in BOOLEAN : TokenAnswer(granted)
  \/ \E status \in Statuses \cup {0}, found \in BOOLEAN :
       Response(status, found)
  \/ \E granted \in BOOLEAN : SilentAnswer(granted)
  \/ \E granted \in BOOLEAN : ConsentAnswer(granted)
  \/ \E status \in Statuses \cup {0}, found \in BOOLEAN :
       RetryResponse(status, found)

SpecCall == InitCall /\ [][NextCall]_vars

-----------------------------------------------------------------------------
(* Properties of the graph store under Spec *)

NoDangling(g) == \A k \in DOMAIN g : Range(ChildrenOf(g, k)) \subseteq DOMAIN g

\* the places (parent, index) at which id occurs in a children list
Occurrences(g, id) ==
  {<<p, i>> \in (DOMAIN g) \X (1..Cardinality(DOMAIN g) + 1) :
     i <= Len(ChildrenOf(g, p)) /\ ChildrenOf(g, p)[i] = id}

SingleParent(g) ==
  \A n \in (DOMAIN g) \ {root} : Cardinality(Occurrences(g, n)) = 1

C3_SingleParentAlways == SingleParent(data)

\* C4: deleteSubtree(root) returns the graph unchanged, and root is a key of
\* the graph in every reachable state.
C4_RootNeverDeleted ==
  /\ root \in DOMAIN data
  /\ DeleteNodeById(data, root) = data

\* C4 witness: deleteSubtree(root) has been applied to a graph in which root
\* has children.
C4_Witness ==
  /\ last.op = "delete" /\ last.id = root
  /\ Len(ChildrenOf(data, root)) >= 1

-----------------------------------------------------------------------------
(* Properties of deleteSubtree and of the depth pass under SpecAny *)

\* the ids reachable from the ids of S along the children relation of g
RECURSIVE Closure(_, _)
Closure(S, g) ==
  LET more == S \cup UNION {Range(ChildrenOf(g, k)) : k \in S}
  IN  IF more = S THEN S ELSE Closure(more, g)

\* id and its transitive descendants in g
Descendants(g, id) == Closure({id}, g)

\* deleteSubtree(G, X) gave g: X and its descendants in G are no keys of g and
\* occur in no children list of g
SubtreeGone(G, X, g) ==
  /\ Descendants(G, X) \cap DOMAIN g = {}
  /\ \A k \in DOMAIN g : Range(ChildrenOf(g, k)) \cap Descendants(G, X) = {}

\* C1 (as claimed): for every graph G and every id X, after deleteSubtree(G, X)
\* X and all its descendants are absent as keys and from all children lists.
C1_DeleteSubtreeEveryId ==
  last.op = "delete" => SubtreeGone(loaded, last.id, data)

\* C1 (amended): the same for every id X other than root.
C1_DeleteSubtree ==
  (last.op = "delete" /\ last.id # root) => SubtreeGone(loaded, last.id, data)

\* C1 witness: a node with at least one descendant node, referenced from a
\* node outside its subtree, has been deleted.
C1_Witness ==
  /\ last.op = "delete" /\ last.id # root
  /\ Cardinality(Descendants(loaded, last.id) \cap DOMAIN loaded) >= 2
  /\ \E k \in DOMAIN data :
       Range(ChildrenOf(loaded, k)) \cap Descendants(loaded, last.id) # {}

AllReachable(g) ==
  /\ root \in DOMAIN g
  /\ DOMAIN g \subseteq Descendants(g, root)

ParentsOf(g, n) == {p \in DOMAIN g : n \in Range(ChildrenOf(g, p))}

\* C5: when every node of the loaded graph is reachable from root, the depth
\* pass leaves depth(root) = 0 and depth(n) = 1 + depth(parent(n)) for every
\* other node n, whatever depths were stored (parent(n) is the parent nearest
\* to the root when several nodes list n).
C5_DepthsFromParent ==
  (last.op = "depths" /\ AllReachable(loaded)) =>
     /\ data[root].depth = 0
     /\ \A n \in (DOMAIN data) \ {root} :
          /\ \E p \in ParentsOf(data, n) : data[n].depth = 1 + data[p].depth
          /\ \A p \in ParentsOf(data, n) : data[n].depth <= 1 + data[p].depth

\* C5 witness: the pass rewrote the depths of a fully reachable graph that
\* has a node at depth 2.
C5_Witness ==
  /\ last.op = "depths" /\ AllReachable(loaded)
  /\ data # loaded
  /\ \E n \in DOMAIN data : data[n].depth = 2 /\ loaded[n].depth # 2

-----------------------------------------------------------------------------
(* Properties of the recurrence effect under SpecRecur *)

Eligible(node) ==
  /\ "completed" \in DOMAIN node /\ node.completed = TRUE
  /\ "dueDate" \in DOMAIN node /\ node.dueDate # NoDate
  /\ "repeatDays" \in DOMAIN node /\ node.repeatDays > 0

\* the first date d + k * r, k >= 1, that is not before today
FirstOccurrence(d, r, today) ==
  LET K == CHOOSE k \in 1..(today - d) :
             /\ d + k * r >= today
             /\ \A j \in 1..(k - 1) : d + j * r < today
  IN  d + K * r

\* the loop reaches today within its 1000 steps
WithinGuard(node, today) ==
  today - node.dueDate <= GuardLimit * node.repeatDays

\* C6 (as claimed, for the tasks whose loop is not cut short by the guard):
\* the effect leaves no task it modifies with a dueDate earlier than today,
\* and leaves unchanged every task that is not completed, has no dueDate or
\* has repeatDays = 0.
C6_NeverBeforeToday ==
  last.op = "advance" =>
    \A k \in DOMAIN data :
      /\ (data[k] # loaded[k] /\ WithinGuard(loaded[k], rec.today))
            => data[k].dueDate >= rec.today
      /\ ~Eligible(loaded[k]) => data[k] = loaded[k]

\* C7 (as claimed, for the tasks whose loop is not cut short by the guard):
\* a completed task with repeatDays = r > 0 and dueDate d before today gets
\* dueDate d + k * r for the smallest k >= 1 with d + k * r >= today, and
\* completed = false.
C7_FirstOccurrence ==
  last.op = "advance" =>
    \A k \in DOMAIN data :
      (/\ Eligible(loaded[k]) /\ loaded[k].dueDate < rec.today
       /\ WithinGuard(loaded[k], rec.today)) =>
         /\ data[k].dueDate =
              FirstOccurrence(loaded[k].dueDate, loaded[k].repeatDays, rec.today)
         /\ data[k].completed = FALSE

-----------------------------------------------------------------------------
(* Properties of the reorder under SpecDrag *)

\* C8: reordering is idempotent: after onNodeDragStop has been applied,
\* applying it again with the same positions leaves the children order (and
\* the graph) as it is.
C8_ReorderIdempotent ==
  last.op = "reorder" => OnNodeDragStop(data, last.id, posY) = data

\* C8 witness: a drag stop has just changed the order of three or more
\* siblings, two of which are at the same y.
C8_Witness ==
  /\ last.op = "reorder"
  /\ \E p \in DOMAIN data :
       LET kids == ChildrenOf(data, p)
       IN  /\ Len(kids) >= 3
           /\ last.id \in Range(kids)
           /\ \E i, j \in DOMAIN kids : i < j /\ kids[i] > kids[j]
           /\ \E i, j \in DOMAIN kids : i # j /\ posY[kids[i]] = posY[kids[j]]

-----------------------------------------------------------------------------
(* Properties of the synchronisation hooks under SpecSync *)

\* C9: when the snapshots of a burst were scheduled within one debounce
\* window and no write was in flight when its timer fired, exactly one remote
\* write has been started since, and it carries the last snapshot scheduled.
C9_Coalescing ==
  sync.phase \in {"fired", "settled"} => sync.wrote = <<sync.snap>>

\* a burst of two or more schedule calls whose timer fired, on either hook
C9_Witness ==
  /\ sync.phase = "settled"
  /\ sync.n >= 2
  /\ sync.wrote = <<sync.snap>>
  /\ last.op = "complete"

\* C10: at most one remote write of the document is outstanding at any time.
C10_SingleFlight == Outstanding(sync) <= 1

\* a save was requested while a write was outstanding: the hook holds it back
C10_Witness ==
  /\ Outstanding(sync) = 1
  /\ \/ sync.engine = "drive" /\ sync.queued
     \/ sync.engine = "backed" /\ sync.jobs # <<>>

\* a write has just settled and a follow-up write was started in its place
FollowUpStarted ==
  /\ last.op = "complete"
  /\ IF sync.engine = "drive" THEN sync.inflight # <<>>
     ELSE /\ last.tries >= 1
          /\ sync.running # <<>>
          /\ sync.running[1].stage = "write"

\* C11: whatever number of edits and timer fires occurred while
\* a write was in flight, when that write settles exactly one follow-up write
\* starts, nothing else waits behind it, and it carries the latest snapshot
\* at the time it starts.
C11_OneFollowUp ==
  FollowUpStarted =>
    IF sync.engine = "drive"
    THEN sync.inflight = <<sync.latest>> /\ ~sync.queued
    ELSE /\ Len(sync.running) = 1
         /\ sync.running[1].payload = sync.state
         /\ sync.jobs = <<>>

\* C12: a save job of the deprecated hook whose write failed twice with a
\* retryable error and then succeeded made exactly three driveUpdateJson
\* calls and left the status idle
C12_TwoFailuresThenSuccess ==
  (/\ sync.engine = "backed"
   /\ last.op = "complete"
   /\ last.outcome = "ok"
   /\ last.failures = 2)
    => /\ last.tries = 3
       /\ ~sync.destroyed => sync.status = "idle"

C12_Witness ==
  /\ sync.engine = "backed"
  /\ last.op = "complete"
  /\ last.outcome = "ok"
  /\ last.failures = 2
  /\ last.tries = 3
  /\ sync.status = "idle"

\* C13: a save job whose every write failed with a retryable error made
\* exactly MaxAttempts driveUpdateJson calls, then onSaveError was called and
\* the status is error; no job ever makes more than MaxAttempts calls
C13_RetriesExhausted ==
  sync.engine = "backed" =>
    /\ \A i \in DOMAIN sync.running : sync.running[i].tries <= MaxAttempts
    /\ (/\ last.op = "complete"
        /\ last.outcome = "error"
        /\ "retryable" \in DOMAIN last
        /\ last.retryable)
         => /\ last.tries = MaxAttempts
            /\ last.failures = MaxAttempts
            /\ last.onSaveError
            /\ ~sync.destroyed => sync.status = "error"

C13_Witness ==
  /\ sync.engine = "backed"
  /\ last.op = "complete"
  /\ last.outcome = "error"
  /\ "retryable" \in DOMAIN last
  /\ last.retryable
  /\ last.tries = MaxAttempts
  /\ last.onSaveError
  /\ sync.status = "error"

CreatedUnder(g, h, p, n, hide) ==
  /\ n \notin DOMAIN g
  /\ DOMAIN h = DOMAIN g \cup {n}
  /\ h[n].visible = ~hide
  /\ h[n].depth = g[p].depth + 1
  /\ h[p].children = g[p].children \o <<n>>
  /\ \A k \in DOMAIN g \ {p} : h[k] = g[k]

\* C15 (as claimed): createChild on an existing parent adds exactly one
\* node with a fresh id, visible = true and depth = parent.depth + 1 for all
\* overrides, appended last to the parent's children
C15_CreateChildVisible ==
  [][\A p \in AnyIds, ov \in AnyOverrides :
       (CreateChild(p, ov) /\ p \in DOMAIN data)
         => CreatedUnder(data, data', p, nextId, FALSE)]_vars

\* C15 (amended): the same, with visible = true unless the overrides hold a
\* visible field, which then is the flag of the new node; a depth in the
\* overrides is never used
C15_CreateChild ==
  [][\A p \in AnyIds, ov \in AnyOverrides :
       (CreateChild(p, ov) /\ p \in DOMAIN data)
         => CreatedUnder(data, data', p, nextId,
                         "visible" \in DOMAIN ov /\ ~ov.visible)]_vars

\* a child was created under a root with root.children = [A]: the list is
\* [A, B] now and B is visible and has depth 1
C15_Witness ==
  /\ last.op = "create"
  /\ root \in DOMAIN loaded
  /\ Len(loaded[root].children) = 1
  /\ \E n \in DOMAIN data \ DOMAIN loaded :
       /\ data[root].children = loaded[root].children \o <<n>>
       /\ data[n].depth = 1
       /\ data[n].visible

\* C16: createChild with a parentId that is no key of the graph leaves the
\* graph as it is
C16_CreateChildAbsentParent ==
  [][\A p \in KnownIds, ov \in Overrides :
       (CreateChild(p, ov) /\ p \notin DOMAIN data) => data' = data]_vars

\* C17: a patch of an id that is no key of the graph (an id removed by an
\* earlier deleteSubtree) leaves the graph as it is
C17_PatchAbsentId ==
  [][\A id \in KnownIds, patch \in Patches :
       (PatchNode(id, patch) /\ id \notin DOMAIN data) => data' = data]_vars

\* C18: a patch leaves the children of every node as they were, for every
\* id and every patch
C18_PatchKeepsChildren ==
  [][\A id \in AnyIds, patch \in AnyPatches :
       PatchNode(id, patch)
         => \A k \in DOMAIN data :
              k \in DOMAIN data' /\ data'[k].children = data[k].children]_vars

\* the nodes of g that some node of ids lists among its children
DirectChildren(g, ids) ==
  {k \in DOMAIN g : \E sid \in ids \cap DOMAIN g :
                      \E i \in DOMAIN g[sid].children :
                        g[sid].children[i] = k}

\* C19: revealChildren(ids) sets visible = true on the direct children of
\* the ids and changes nothing else: every other node, grandchildren
\* included, is as before, and no visible node becomes hidden
C19_RevealDirectChildren ==
  [][\A sel \in (SUBSET AnyIds) \ {{}} :
       SelectionChange(sel)
         => /\ DOMAIN data' = DOMAIN data
            /\ \A k \in DOMAIN data :
                 /\ data'[k] = IF k \in DirectChildren(data, sel)
                               THEN Spread(data[k], [visible |-> TRUE])
                               ELSE data[k]
                 /\ data[k].visible => data'[k].visible]_vars

\* a hidden node was revealed and a hidden child of it stayed hidden
C19_Witness ==
  /\ last.op = "reveal"
  /\ \E k \in DOMAIN data :
       /\ ~loaded[k].visible
       /\ data[k].visible
       /\ \E c \in DirectChildren(data, {k}) \ {k} :
            ~loaded[c].visible /\ ~data[c].visible

\* C20: normalizeVisibility keeps the keys, the children and the other
\* fields of every node and makes a node visible iff it is root or a direct
\* child of root; applied to its own result it changes nothing
C20_NormalizeVisibility ==
  [][LoadUserData
       => /\ DOMAIN data' = DOMAIN data
          /\ \A k \in DOMAIN data :
               data'[k] = Spread(data[k],
                                 [visible |->
                                    (k = root
                                     \/ k \in DirectChildren(data, {root}))])
          /\ last.op = "normalize" => data' = data]_vars

\* the normalization hid a visible node and revealed a hidden child of root
C20_Witness ==
  /\ last.op = "normalize"
  /\ root \in DOMAIN data
  /\ \E k \in DOMAIN data : loaded[k].visible /\ ~data[k].visible
  /\ \E c \in DirectChildren(data, {root}) \ {root} :
       ~loaded[c].visible /\ data[c].visible

\* the status transitions of the claim; needs_auth -> idle via connect() is
\* read as the path needs_auth -> loading -> idle
StatusTransitions ==
  {<<"idle", "loading">>, <<"loading", "idle">>, <<"loading", "needs_auth">>,
   <<"loading", "error">>, <<"idle", "saving">>, <<"saving", "idle">>,
   <<"saving", "error">>, <<"needs_auth", "idle">>,
   <<"needs_auth", "loading">>}

\* C21: the status of the deprecated hook only changes along idle ->
\* loading, loading -> {idle, needs_auth, error}, idle -> saving, saving ->
\* {idle, error} and needs_auth -> idle through connect()
C21_StatusTransitions ==
  [][sync.engine = "backed"
       => \/ sync'.status = sync.status
          \/ <<sync.status, sync'.status>> \in StatusTransitions]_vars

\* C22: when the silent request of the mount effect fails the status
\* becomes needs_auth, and it stays needs_auth until connect() is called
\* (connect() being the only step that asks for a token interactively)
C22_NeedsAuthUntilConnect ==
  [][sync.engine = "backed"
       => /\ (AuthFail /\ sync.flow = "mount" /\ ~sync.token)
               => sync'.status = "needs_auth"
          /\ (/\ sync.status = "needs_auth"
              /\ ~sync.token
              /\ sync'.status # "needs_auth")
               => Connect]_vars

\* C23: after flush() no debounce timer is armed; a flush with something to
\* write has started (or chained) the write and its promise is not resolved
\* before that write settles, also when another write is in flight: a flush
\* promise that resolved at once left no write in flight behind
C23_FlushAwaitsWrite ==
  last.op = "flush" =>
    /\ sync.timer = 0
    /\ IF sync.engine = "drive"
       THEN (sync.mounted /\ sync.loaded)
              => /\ sync.inflight # <<>>
                 /\ last.resolved => ~sync.saving
       ELSE ~last.resolved => sync.running # <<>>

\* C24: in one fetchWithDriveToken call a 401 or 403 clears the cached
\* token and starts one refresh, which is followed by exactly one more fetch;
\* the call is sent at most twice, and when the refresh gives no token the
\* call fails as unauthorized with no second fetch
C24_OneRefreshOneRetry ==
  sync.engine = "call" =>
    /\ sync.sends <= 2
    /\ sync.refreshes <= 1
    /\ sync.pc \in {"silent", "consent"}
         => ~sync.token /\ sync.sends = 1 /\ sync.refreshes = 1
    /\ sync.pc = "resent" => sync.sends = 2 /\ sync.refreshes = 1
    /\ sync.sends = 2 => sync.refreshes = 1
    /\ sync.result = "unauthorized"
         => sync.sends = 1 /\ sync.refreshes = 1 /\ ~sync.token

\* a call answered 401/403 was refreshed, sent a second time and returned
C24_Witness ==
  /\ sync.engine = "call"
  /\ sync.pc = "done"
  /\ sync.sends = 2
  /\ sync.refreshes = 1
  /\ sync.status \in {200, 401}

\* C25: a save never asks for a token interactively: after an auth
\* rejection only the silent request is made
C25_NoPromptInBackgroundSave ==
  (sync.engine = "call" /\ sync.op = "write") => sync.prompts = 0

\* C26: a session creates the remote document at most once, under every
\* interleaving of the mount load, connect() and the save jobs
C26_AtMostOneCreate == sync.engine = "backed" => sync.created <= 1

\* the sequence t holds the elements of s, each as often as s does
IsPermutation(s, t) ==
  /\ Len(s) = Len(t)
  /\ \A x \in Range(s) \cup Range(t) :
       Cardinality({i \in DOMAIN s : s[i] = x}) =
       Cardinality({i \in DOMAIN t : t[i] = x})

\* C27: the order a drag stop on the rendered document leaves for the parent
\* of the dragged node is a permutation of the parent's children before it, in
\* non-decreasing y position, and two children at the same position stay in
\* the relative order they had before.
C27_ReorderSortedPermutation ==
  [][(/\ last'.op = "reorder"
      /\ loaded = data
      /\ HasParent(data, last'.id)
      /\ BatchDragStop(last'.id))
     => LET p    == FindParent(data, last'.id)
            old  == ChildrenOf(data, p)
            kids == ChildrenOf(data', p)
        IN  /\ IsPermutation(old, kids)
            /\ \A i, j \in DOMAIN kids :
                 i < j => PosOf(posY, kids[i]) <= PosOf(posY, kids[j])
            /\ \A i, j \in DOMAIN kids :
                 (i < j /\ PosOf(posY, kids[i]) = PosOf(posY, kids[j]))
                   => OrderIndex(old, kids[i]) < OrderIndex(old, kids[j])]_vars

\* C27 witness: a drag stop has moved a sibling with a lower y in front of
\* one created before it, next to two siblings at the same y that kept
\* their order.
C27_Witness ==
  /\ last.op = "reorder"
  /\ last.updated
  /\ IsPermutation(ChildrenOf(loaded, root), ChildrenOf(data, root))
  /\ HasParent(data, last.id)
  /\ LET kids == ChildrenOf(data, FindParent(data, last.id))
     IN  /\ Len(kids) >= 3
         /\ \E i, j \in DOMAIN kids :
              i < j /\ kids[i] > kids[j]
                    /\ PosOf(posY, kids[i]) < PosOf(posY, kids[j])
         /\ \E i, j \in DOMAIN kids :
              i < j /\ kids[i] < kids[j]
                    /\ PosOf(posY, kids[i]) = PosOf(posY, kids[j])

\* C28: a drag stop whose handler finds a parent with fewer than two
\* children, or siblings that already are in non-decreasing y order, issues
\* no state update: the handler returns before setUserData (so no save is
\* scheduled) and the graph is the one it was.
C28_NoUpdateWhenInOrder ==
  [][(/\ last'.op = "reorder"
      /\ HasParent(loaded, last'.id)
      /\ \E sibs \in {ChildrenOf(loaded, FindParent(loaded, last'.id))} :
           \/ Len(sibs) < 2
           \/ \A i, j \in DOMAIN sibs :
                i < j => PosOf(posY, sibs[i]) <= PosOf(posY, sibs[j])
      /\ BatchDragStop(last'.id))
     => (data' = data /\ ~last'.updated)]_vars

\* C28 witness: a drag stop among three or more siblings that were in order,
\* two of them at the same y, has returned without an update.
C28_Witness ==
  /\ last.op = "reorder"
  /\ ~last.updated
  /\ data = loaded
  /\ HasParent(data, last.id)
  /\ LET sibs == ChildrenOf(data, FindParent(data, last.id))
     IN  /\ Len(sibs) >= 3
         /\ \E i, j \in DOMAIN sibs :
              i < j /\ PosOf(posY, sibs[i]) = PosOf(posY, sibs[j])

\* C29: a reorder keeps the set of the parent's children, also when other
\* updates were applied after the render the drag handler read the children
\* from: the list onNodeDragStop leaves is a permutation of the list the
\* parent has when the handler's update is applied.
C29_ReorderKeepsChildren ==
  [][(/\ last'.op = "reorder"
      /\ BatchDragStop(last'.id)
      /\ HasParent(loaded, last'.id)
      /\ FindParent(loaded, last'.id) \in DOMAIN data)
     => LET p == FindParent(loaded, last'.id)
        IN  IsPermutation(ChildrenOf(data, p), ChildrenOf(data', p))]_vars

\* C30: two createChild calls on the same existing parent made from the same
\* rendered snapshot, one right after the other, both take effect: after the
\* second call both new nodes are keys of the graph and the parent's children
\* hold each new id once, the first before the second.
C30_BothCreatesTakeEffect ==
  [][(/\ last.op = "create"
      /\ last'.op = "create"
      /\ last'.id = last.id
      /\ BatchCreateChild(last.id, EmptyObj)
      /\ last.id \in DOMAIN loaded)
     => LET kids == ChildrenOf(data', last.id)
        IN  /\ {last.newId, nextId} \subseteq DOMAIN data'
            /\ \A x \in {last.newId, nextId} :
                 Cardinality({i \in DOMAIN kids : kids[i] = x}) = 1
            /\ \E i, j \in DOMAIN kids :
                 i < j /\ kids[i] = last.newId /\ kids[j] = nextId]_vars

\* C30 witness: two calls on a parent that had a child already, made from one
\* snapshot, have both been applied.
C30_Witness ==
  /\ last.op = "create"
  /\ last.id \in DOMAIN loaded
  /\ last.newId - 1 \notin DOMAIN loaded
  /\ ChildrenOf(loaded, last.id) # <<>>
  /\ ChildrenOf(data, last.id) =
       ChildrenOf(loaded, last.id) \o <<last.newId - 1, last.newId>>

\* C31: deleteSubtree(G, X) changes nothing outside the subtree of X: every
\* key of G that is neither X nor a descendant of X is still a key, with the
\* same fields and values, and its children list is its previous list without
\* the removed ids, in the same order.
C31_DeleteFrame ==
  last.op = "delete" =>
    \A sub \in {Descendants(loaded, last.id)},
       gone \in {IF last.id = root THEN {} ELSE Descendants(loaded, last.id)} :
        \A k \in (DOMAIN loaded) \ sub :
          /\ k \in DOMAIN data
          /\ DOMAIN data[k] = DOMAIN loaded[k]
          /\ \A f \in (DOMAIN loaded[k]) \ {"children"} : data[k][f] = loaded[k][f]
          /\ ChildrenOf(data, k) =
               SelectSeq(ChildrenOf(loaded, k), LAMBDA c : c \notin gone)

\* C31 witness: a subtree has been deleted from a graph in which a node outside
\* of it listed the deleted node between two children that stay.
C31_Witness ==
  /\ last.op = "delete"
  /\ last.id # root
  /\ last.id \in DOMAIN loaded
  /\ \E k \in DOMAIN data :
       /\ last.id \in Range(ChildrenOf(loaded, k))
       /\ Len(ChildrenOf(data, k)) >= 2
       /\ Len(ChildrenOf(data, k)) < Len(ChildrenOf(loaded, k))

\* C32: the depth pass leaves every node that is unreachable from root as it
\* was, rewrites only nodes whose stored depth differs from the computed one
\* (and only their depth), and when no depth differs it leaves the document
\* as it is and schedules no save.
C32_DepthPassFrame ==
  [][HomeDepthEffect =>
       /\ \A k \in (DOMAIN data) \ Descendants(data, root) : data'[k] = data[k]
       /\ \A k \in DOMAIN data :
            data'[k] # data[k] =>
              /\ data[k].depth # TargetDepth(data)[k]
              /\ data'[k] = Spread(data[k], [depth |-> TargetDepth(data)[k]])
       /\ (\A k \in (DOMAIN data) \cap Descendants(data, root) :
             root \in DOMAIN data => data[k].depth = TargetDepth(data)[k])
            => /\ data' = data
               /\ sync'.timer = sync.timer
               /\ sync'.inflight = sync.inflight]_vars

\* a node of g lies on a cycle of the children relation
OnCycle(g, k) == k \in Closure(Range(ChildrenOf(g, k)), g)

\* C33: on every finite graph, with cycles and with nodes that several nodes
\* list, the stack walk of deleteSubtree ends within 1 + (sum of the lengths
\* of the children lists) iterations and the breadth-first walk of the depth
\* pass ends within (number of keys) iterations.
C33_TraversalsTerminate ==
  /\ last.op = "delete" =>
       \A limit \in {WalkLimit(loaded)} :
         CollectIterations(<<last.id>>, {}, loaded, 0, limit) <= limit
  /\ (last.op = "depths" /\ root \in DOMAIN loaded) =>
       \A limit \in {Cardinality(DOMAIN loaded)} :
         BreadthFirstIterations([q |-> <<root>>, target |-> [k \in {root} |-> 0]],
                                loaded, 0, limit) <= limit

\* C33 witness: the subtree of a node that lies on a cycle and has a
\* descendant listed by two nodes has been deleted.
C33_Witness ==
  /\ last.op = "delete"
  /\ last.id \in DOMAIN loaded
  /\ OnCycle(loaded, last.id)
  /\ \E c \in Descendants(loaded, last.id) \cap DOMAIN loaded :
       Cardinality({k \in Descendants(loaded, last.id) \cap DOMAIN loaded :
                      c \in Range(ChildrenOf(loaded, k))}) >= 2

\* C34: when driveUpdateJson fails with an error that does not match the
\* retry pattern, saveWithRetry makes no further call: the job ends at once
\* (after one call when this was its first failure), the error is handed to
\* onSaveError and the status is error (unless the hook was unmounted).
C34_NoRetryOnOtherErrors ==
  [][\A i \in 1..MaxJobs :
       (/\ sync.engine = "backed"
        /\ i \in DOMAIN sync.running
        /\ WriteFail(i, FALSE))
       => /\ last'.op = "complete"
          /\ last'.outcome = "error"
          /\ last'.onSaveError
          /\ last'.tries = sync.running[i].tries
          /\ sync.running[i].attempt = 0 => last'.tries = 1
          /\ \A j \in DOMAIN sync'.running : ~sync'.running[j].waiting
          /\ ~sync.destroyed => sync'.status = "error"]_vars

\* C34 witness: the first write of a job failed with such an error: one call,
\* onSaveError called, status error.
C34_Witness ==
  /\ sync.engine = "backed"
  /\ last.op = "complete"
  /\ last.outcome = "error"
  /\ "retryable" \in DOMAIN last
  /\ ~last.retryable
  /\ last.tries = 1
  /\ last.failures = 1
  /\ last.onSaveError
  /\ sync.status = "error"

\* C35: the pending payload holds the last snapshot that is not durably
\* written, also after a failed write.  When the save job that just ended
\* failed in its write and no other job runs or waits, its payload is the
\* most recently scheduled snapshot (a later schedule call would have left a pending payload
\* or a later job), it has not been written and no write is in flight: the
\* pending payload must hold it.
C35_PendingKeepsUnsaved ==
  (/\ sync.engine = "backed"
   /\ last.op = "complete"
   /\ last.outcome = "error"
   /\ last.tries >= 1
   /\ sync.running = <<>>
   /\ sync.jobs = <<>>)
  => sync.pending # NullDoc
\* C36: eventual persistence.  With the credential in hand, timers firing and
\* writes succeeding, once the local edits stop the remote document
\* eventually holds the latest local snapshot and keeps it, under every
\* interleaving of edits, timer fires and write completions.
C36_EventualPersistence ==
  <>[][~Edit]_vars => <>[](sync.remote = Local(sync))

\* an edit was made, its write has completed, nothing is armed or in flight
\* and the remote document holds the latest local snapshot
C36_Witness ==
  /\ "remote" \in DOMAIN sync
  /\ last.op = "complete"
  /\ Quiet(sync)
  /\ sync.timer = 0
  /\ sync.remote = Local(sync)


\* C37: a snapshot that was retained as the pending payload because it was
\* edited while no credential existed is written once the credential is
\* there.  Whenever the silent flow or connect() has just loaded the document
\* with the credential in hand and the pending payload is v, eventually the
\* remote document holds v, unless a later edit replaces the pending payload
\* first; no further edit is needed for it.
C37_RetainedIsWritten ==
  \A v \in Snapshots :
    (/\ last.op = "load"
     /\ sync.token
     /\ sync.auth = "none"
     /\ sync.timer = 0
     /\ sync.pending = v)
    ~> (sync.remote = v \/ sync.pending \notin {v, NullDoc})


\* C38: in useGoogleDriveState lastSavedAt is updated only after a remote
\* write that succeeded; a write that failed records lastError and calls
\* onSaveError instead of being reported as saved.
C38_FailedWriteNotSaved ==
  (sync.engine = "drive" /\ last.op = "complete" /\ ~last.ok)
  => (~last.lastSavedAt /\ last.lastError /\ last.onSaveError)


\* C39: in useGoogleDriveState no remote write starts before the initial
\* load has finished.  While the hook is loading no write is in flight and no
\* timer is armed; setState, a timer fire and flush() only record the deferred
\* save request; and the load, when it completes, arms exactly one timer if a
\* request was deferred (none otherwise) and starts no write.
C39_NoWriteBeforeLoad ==
  [][(sync.engine = "drive" /\ ~sync.loaded)
     => /\ sync.inflight = <<>>
        /\ sync.timer = 0
        /\ (last'.op \in {"schedule", "fire", "flush"} /\ sync.mounted)
           => /\ ~sync'.loaded
              /\ sync'.reqLoading
              /\ sync'.inflight = <<>>
              /\ sync'.timer = 0
        /\ (last'.op = "load" /\ sync.mounted)
           => /\ sync'.loaded
              /\ ~sync'.reqLoading
              /\ sync'.inflight = <<>>
              /\ sync'.timer = IF sync.reqLoading THEN 1 ELSE 0]_vars

\* the load has just completed after edits made while it ran: one timer is
\* armed and no write is in flight
C39_Witness ==
  /\ sync.engine = "drive"
  /\ last.op = "load"
  /\ sync.loaded
  /\ sync.timer = 1
  /\ sync.inflight = <<>>
  /\ sync.latest # NullDoc


\* the hook is alive: its status can still be set
Alive(s) == IF s.engine = "drive" THEN s.mounted ELSE ~s.destroyed

\* C40: the status reflects the write activity.  In every reachable state of
\* a live hook the status is saving whenever a remote write is in flight, and
\* it is idle only when no write is in flight, also when a second write was
\* chained behind a first one: stated for the states in which a write has
\* just completed.
C40_StatusReflectsWrites ==
  (Alive(sync) /\ last.op = "complete")
  => /\ Outstanding(sync) > 0 => sync.status = "saving"
     /\ sync.status = "idle" => Outstanding(sync) = 0


====
